---- MODULE Spec2Model ----
(***************************************************************************)
(* Model of the navigation state machine (Stepper, visualizer/stepper.js)  *)
(* and the playback driver (Animator, visualizer/animator.js) of the       *)
(* crypto-visualizer.  Indices are 0-based as in the JavaScript source;    *)
(* a JavaScript array is a TLA+ sequence read through At.                  *)
(***************************************************************************)
EXTENDS Integers, Sequences, FiniteSets, TLC

\* ---------------------------------------------------------------- bounds
\* longest step sequence handed to the constructor or to reset
MaxLen == 3
\* largest handle the timer table hands out
MaxTimerId == 2

\* ------------------------------------------------------------- constants
\* default period of the Animator constructor
DefaultSpeed == 800
\* the null interval handle (timer handles are positive)
NoTimer == 0

\* step objects are opaque to the Stepper: two distinguishable ones
StepVals == {"a", "b"}
\* JavaScript null (prevStep) and undefined (array read out of range)
Null == "null"
Undefined == "undefined"

Seqs == UNION {[1..n -> StepVals] : n \in 0..MaxLen}
Speeds == {DefaultSpeed, 400}
GoToArgs == {-5, 1000} \cup ((0 - 1)..MaxLen)
TimerIds == 1..MaxTimerId

VARIABLES
  steps,          \* Stepper.#steps
  currentIndex,   \* Stepper.#currentIndex
  playing,        \* Animator.#playing
  intervalId,     \* Animator.#intervalId (NoTimer when null)
  speed,          \* Animator.#speed
  onStateChange,  \* Animator.#onStateChange is non-null
  timers,         \* the host's table of active setInterval timers
  phase,          \* flips with every run of the interval callback
  op,             \* the operation that produced this state
  arg,            \* its argument, <<>> when it has none
  ret,            \* its return value, <<>> when it returns undefined
  events,         \* the observer invocations it made, in order
  currentAlgo,    \* main.js currentAlgo
  stepper,        \* main.js stepper is non-null
  animator,       \* main.js animator is non-null
  currentRoundKeys, \* main.js currentRoundKeys (<<>> when null)
  inputError      \* text content of the input-error element

vars == <<steps, currentIndex, playing, intervalId, speed, onStateChange,
          timers, phase, op, arg, ret, events,
          currentAlgo, stepper, animator, currentRoundKeys, inputError>>

\* the module state of the glue code
GlueVars == <<currentAlgo, stepper, animator, currentRoundKeys, inputError>>

\* ---------------------------------------------------------------- Stepper
\* steps[i] of a JavaScript array
At(s, i) == IF i \in 0..(Len(s) - 1) THEN s[i + 1] ELSE Undefined

Max(a, b) == IF a >= b THEN a ELSE b
Min(a, b) == IF a <= b THEN a ELSE b

\* #notify(prevStep): one call of onStepChange
notify(s, c, prevStep) ==
  [kind |-> "step", cur |-> At(s, c), prev |-> prevStep,
   index |-> c, total |-> Len(s)]

totalSteps(s) == Len(s)
isAtStart(c) == c = 0
\* isAtEnd that compares the cursor with the length
isAtEnd_PastEnd(s, c) == c = Len(s)

isAtEnd(s, c) == c = Len(s) - 1

\* next() that tests the cursor against length instead of length - 1
next_OffByOne(s, c) ==
  IF c < Len(s)
  THEN [index |-> c + 1, events |-> <<notify(s, c + 1, At(s, c))>>]
  ELSE [index |-> c, events |-> <<>>]

\* each method returns the new cursor and the notifications it fired
next(s, c) ==
  IF c < Len(s) - 1
  THEN [index |-> c + 1, events |-> <<notify(s, c + 1, At(s, c))>>]
  ELSE [index |-> c, events |-> <<>>]

\* prev() that notifies outside the guard
prev_AlwaysNotify(s, c) ==
  IF c > 0
  THEN [index |-> c - 1, events |-> <<notify(s, c - 1, At(s, c))>>]
  ELSE [index |-> c, events |-> <<notify(s, c, At(s, c))>>]

prev(s, c) ==
  IF c > 0
  THEN [index |-> c - 1, events |-> <<notify(s, c - 1, At(s, c))>>]
  ELSE [index |-> c, events |-> <<>>]

\* goTo() that clamps only from below
goTo_NoUpperClamp(s, c, index) ==
  LET clamped == Max(0, index)
  IN  IF clamped # c
      THEN [index |-> clamped, events |-> <<notify(s, clamped, At(s, c))>>]
      ELSE [index |-> c, events |-> <<>>]

\* goTo() that reports the step before the target as the previous step
goTo_PrevIsTargetMinusOne(s, c, index) ==
  LET clamped == Max(0, Min(index, Len(s) - 1))
  IN  IF clamped # c
      THEN [index |-> clamped,
            events |-> <<notify(s, clamped, At(s, clamped - 1))>>]
      ELSE [index |-> c, events |-> <<>>]

goTo(s, c, index) ==
  LET clamped == Max(0, Min(index, Len(s) - 1))
  IN  IF clamped # c
      THEN [index |-> clamped, events |-> <<notify(s, clamped, At(s, c))>>]
      ELSE [index |-> c, events |-> <<>>]

\* reset() that passes the step it lands on as the previous step
reset_PrevIsFirst(newSteps) ==
  [steps |-> newSteps, index |-> 0,
   events |-> <<notify(newSteps, 0, At(newSteps, 0))>>]

reset(newSteps) ==
  [steps |-> newSteps, index |-> 0, events |-> <<notify(newSteps, 0, Null)>>]

start(s, c) ==
  [index |-> c, events |-> <<notify(s, c, Null)>>]

\* --------------------------------------------------------------- Animator
\* the Animator's fields together with the host's timer table
Anim == [playing |-> playing, intervalId |-> intervalId, timers |-> timers,
         events |-> <<>>]

\* #fireStateChange(): one call of onStateChange when there is one
fireStateChange(p) ==
  IF onStateChange THEN <<[kind |-> "state", playing |-> p]>> ELSE <<>>

\* clearInterval(id)
clearInterval(tt, id) == {t \in tt : t.id # id}

\* play() without the early return while playing
play_NoGuard(a, ms, id) ==
  [playing |-> TRUE, intervalId |-> id,
   timers |-> a.timers \cup {[id |-> id, period |-> ms]},
   events |-> a.events \o fireStateChange(TRUE)]

\* play() where setInterval hands out the handle id
play(a, ms, id) ==
  IF a.playing
  THEN a
  ELSE [playing |-> TRUE, intervalId |-> id,
        timers |-> a.timers \cup {[id |-> id, period |-> ms]},
        events |-> a.events \o fireStateChange(TRUE)]

\* pause() that fires the observer before it assigns #playing
pause_FireBeforeAssign(a) ==
  IF ~a.playing
  THEN a
  ELSE [playing |-> FALSE, intervalId |-> NoTimer,
        timers |-> clearInterval(a.timers, a.intervalId),
        events |-> a.events \o fireStateChange(a.playing)]

\* pause() that forgets clearInterval
pause_NoClear(a) ==
  IF ~a.playing
  THEN a
  ELSE [playing |-> FALSE, intervalId |-> NoTimer,
        timers |-> a.timers,
        events |-> a.events \o fireStateChange(FALSE)]

pause(a) ==
  IF ~a.playing
  THEN a
  ELSE [playing |-> FALSE, intervalId |-> NoTimer,
        timers |-> clearInterval(a.timers, a.intervalId),
        events |-> a.events \o fireStateChange(FALSE)]

toggle(a, ms, id) == IF a.playing THEN pause(a) ELSE play(a, ms, id)

\* setSpeed() that only stores the period
setSpeed_NoRestart(a, ms, id) == a

setSpeed(a, ms, id) == IF a.playing THEN play(pause(a), ms, id) ELSE a

\* the handles setInterval may return: any that is not active
FreeIds == TimerIds \ {t.id : t \in timers}

\* ---------------------------------------------------------------- actions
Init ==
  /\ steps \in Seqs
  /\ currentIndex = 0
  /\ playing = FALSE
  /\ intervalId = NoTimer
  /\ speed \in Speeds
  /\ onStateChange \in BOOLEAN
  /\ timers = {}
  /\ phase = FALSE
  /\ op = "new"
  /\ arg = <<>>
  /\ ret = <<>>
  /\ events = <<>>
  \* a Stepper and an Animator are in use; the page shows no error
  /\ currentAlgo = "aes"
  /\ stepper = TRUE
  /\ animator = TRUE
  /\ currentRoundKeys = <<>>
  /\ inputError = ""

AnimVars == <<playing, intervalId, speed, onStateChange, timers, phase>>

StepperNext ==
  LET r == next(steps, currentIndex)
  IN  /\ currentIndex' = r.index
      /\ events' = r.events
      /\ ret' = <<r.index>>
      /\ UNCHANGED GlueVars
      /\ op' = "next" /\ arg' = <<>>
      /\ UNCHANGED <<steps, AnimVars>>

StepperPrev ==
  LET r == prev(steps, currentIndex)
  IN  /\ currentIndex' = r.index
      /\ events' = r.events
      /\ ret' = <<r.index>>
      /\ UNCHANGED GlueVars
      /\ op' = "prev" /\ arg' = <<>>
      /\ UNCHANGED <<steps, AnimVars>>

StepperGoTo ==
  \E i \in GoToArgs :
    LET r == goTo(steps, currentIndex, i)
    IN  /\ currentIndex' = r.index
        /\ events' = r.events
        /\ ret' = <<>>
        /\ UNCHANGED GlueVars
        /\ op' = "goTo" /\ arg' = <<i>>
        /\ UNCHANGED <<steps, AnimVars>>

StepperReset ==
  \E ns \in Seqs :
    LET r == reset(ns)
    IN  /\ steps' = r.steps
        /\ currentIndex' = r.index
        /\ events' = r.events
        /\ ret' = <<>>
        /\ UNCHANGED GlueVars
        \* the argument is recorded with its length (newSteps.length)
        /\ op' = "reset" /\ arg' = <<ns, Len(ns)>>
        /\ UNCHANGED AnimVars

StepperStart ==
  LET r == start(steps, currentIndex)
  IN  /\ currentIndex' = r.index
      /\ events' = r.events
      /\ ret' = <<>>
      /\ UNCHANGED GlueVars
      /\ op' = "start" /\ arg' = <<>>
      /\ UNCHANGED <<steps, AnimVars>>

\* install the Animator state a method call leaves behind
SetAnim(a) ==
  /\ playing' = a.playing
  /\ intervalId' = a.intervalId
  /\ timers' = a.timers
  /\ events' = a.events

AnimatorPlay ==
  \E id \in FreeIds :
    /\ SetAnim(play(Anim, speed, id))
    /\ UNCHANGED GlueVars
    /\ op' = "play" /\ arg' = <<>> /\ ret' = <<>>
    /\ UNCHANGED <<steps, currentIndex, speed, onStateChange, phase>>

AnimatorPause ==
  /\ SetAnim(pause(Anim))
  /\ UNCHANGED GlueVars
  /\ op' = "pause" /\ arg' = <<>> /\ ret' = <<>>
  /\ UNCHANGED <<steps, currentIndex, speed, onStateChange, phase>>

AnimatorToggle ==
  \E id \in FreeIds :
    /\ SetAnim(toggle(Anim, speed, id))
    /\ UNCHANGED GlueVars
    /\ op' = "toggle" /\ arg' = <<>> /\ ret' = <<>>
    /\ UNCHANGED <<steps, currentIndex, speed, onStateChange, phase>>

AnimatorSetSpeed ==
  \E ms \in Speeds, id \in TimerIds :
    \* the old timer is cleared before setInterval runs again
    /\ id \in FreeIds \cup {intervalId}
    /\ speed' = ms
    /\ SetAnim(setSpeed(Anim, ms, id))
    /\ UNCHANGED GlueVars
    /\ op' = "setSpeed" /\ arg' = <<ms>> /\ ret' = <<>>
    /\ UNCHANGED <<steps, currentIndex, onStateChange, phase>>

\* the interval callback with pause() notifying ahead of stepper.next()
tick_PauseFirst(s, c, a) ==
  LET r == next(s, c)
      b == IF isAtEnd(s, r.index) THEN pause(a) ELSE a
  IN  [index |-> r.index, anim |-> [b EXCEPT !.events = @ \o r.events]]

\* the interval callback that tests isAtEnd before it calls stepper.next()
tick_PauseBeforeNext(s, c, a) ==
  LET r == next(s, c)
      b == [a EXCEPT !.events = r.events]
  IN  [index |-> r.index,
       anim |-> IF isAtEnd(s, c) THEN pause(b) ELSE b]

\* the interval callback of play(): stepper.next(), then pause() at the end
tick(s, c, a) ==
  LET r == next(s, c)
      b == [a EXCEPT !.events = r.events]
  IN  [index |-> r.index,
       anim |-> IF isAtEnd(s, r.index) THEN pause(b) ELSE b]

\* one active timer of the host fires
TimerTick ==
  \E t \in timers :
    LET r == tick(steps, currentIndex, Anim)
    IN  /\ currentIndex' = r.index
        /\ SetAnim(r.anim)
        /\ phase' = ~phase
        /\ UNCHANGED GlueVars
        /\ op' = "tick" /\ arg' = <<t.id>> /\ ret' = <<>>
        /\ UNCHANGED <<steps, speed, onStateChange>>

Next ==
  \/ StepperNext
  \/ StepperPrev
  \/ StepperGoTo
  \/ StepperReset
  \/ StepperStart
  \/ AnimatorPlay
  \/ AnimatorPause
  \/ AnimatorToggle
  \/ AnimatorSetSpeed
  \/ TimerTick

Spec == Init /\ [][Next]_vars

\* the host keeps firing an active timer
LiveSpec == Spec /\ WF_vars(TimerTick)

TypeOK ==
  /\ steps \in Seqs
  /\ currentIndex \in 0..MaxLen
  /\ playing \in BOOLEAN
  /\ intervalId \in {NoTimer} \cup TimerIds
  /\ speed \in Speeds
  /\ timers \subseteq [id : TimerIds, period : Speeds]

\* ------------------------------------------------------------ properties
NavOps == {"next", "prev", "goTo"}

\* C1 as stated: for a sequence of any length, the empty one included,
\* 0 <= currentIndex <= totalSteps - 1 in every reachable state
C1_CursorInBoundsAnyLength ==
  0 <= currentIndex /\ currentIndex <= totalSteps(steps) - 1

\* C1 amended: whenever the sequence held by the Stepper is non-empty,
\* 0 <= currentIndex <= totalSteps - 1 in every reachable state
C1_CursorInBounds ==
  totalSteps(steps) >= 1 =>
    (0 <= currentIndex /\ currentIndex <= totalSteps(steps) - 1)

C1_Witness ==
  /\ op = "goTo" /\ arg = <<1000>>
  /\ totalSteps(steps) >= 2
  /\ currentIndex = totalSteps(steps) - 1
  /\ events # <<>>

\* C2: next() moves c to c+1 below the last index and leaves it otherwise,
\* prev() moves c to c-1 above 0 and leaves it otherwise, goTo(i) moves it to
\* max(0, min(i, n-1)); next() and prev() return the resulting cursor
C2_Transitions ==
  [][ LET c == currentIndex
          n == Len(steps)
      IN  /\ op' = "next" =>
               /\ currentIndex' = (IF c < n - 1 THEN c + 1 ELSE c)
               /\ ret' = <<currentIndex'>>
          /\ op' = "prev" =>
               /\ currentIndex' = (IF c > 0 THEN c - 1 ELSE c)
               /\ ret' = <<currentIndex'>>
          /\ op' = "goTo" =>
               LET i == arg'[1]
                   low == IF i < n - 1 THEN i ELSE n - 1
               IN  currentIndex' = (IF low > 0 THEN low ELSE 0)
          /\ op' \in NavOps => steps' = steps ]_vars

C2_Witness ==
  /\ op = "goTo" /\ arg = <<0 - 5>>
  /\ currentIndex = 0
  /\ events # <<>>

\* C3: next(), prev() and goTo(i) invoke the observer exactly once when the
\* call changes the cursor and not at all when it does not
C3_OneNotificationPerChange ==
  [][ op' \in NavOps =>
        /\ Len(events') = (IF currentIndex' # currentIndex THEN 1 ELSE 0)
        /\ \A k \in 1..Len(events') : events'[k].kind = "step" ]_vars

C3_Witness ==
  /\ op = "prev"
  /\ currentIndex = 0
  /\ events = <<>>
  /\ totalSteps(steps) >= 2

\* C4: a notification of next(), prev() or goTo(i) carries the step at the
\* new cursor, the step at the cursor before the call, the new cursor and
\* the sequence length
C4_NotificationPayload ==
  [][ op' \in NavOps =>
        \A k \in 1..Len(events') :
          events'[k] = [kind |-> "step",
                        cur |-> At(steps', currentIndex'),
                        prev |-> At(steps, currentIndex),
                        index |-> currentIndex',
                        total |-> Len(steps')] ]_vars

C4_Witness ==
  /\ op = "goTo"
  /\ Len(events) = 1
  /\ events[1].index = 2
  /\ events[1].prev # At(steps, 1)

\* C5: start() moves neither the cursor nor the sequence and fires exactly
\* one notification announcing index 0: the first step, no previous step,
\* index 0 and the total length
C5_StartAnnouncesIndexZero ==
  [][ op' = "start" =>
        /\ currentIndex' = currentIndex
        /\ steps' = steps
        /\ events' = <<[kind |-> "step", cur |-> At(steps, 0),
                        prev |-> Null, index |-> 0,
                        total |-> Len(steps)]>> ]_vars

\* C6: reset(newSequence) replaces the sequence, sets the cursor to 0 and
\* fires exactly one notification (newSequence[0], no previous step, 0,
\* length); afterwards totalSteps is that length and isAtStart holds
C6_Reset ==
  [][ op' = "reset" =>
        LET ns == arg'[1]
        IN  /\ steps' = ns
            /\ currentIndex' = 0
            /\ events' = <<[kind |-> "step", cur |-> At(ns, 0),
                            prev |-> Null, index |-> 0,
                            total |-> Len(ns)]>>
            /\ totalSteps(steps') = Len(ns)
            /\ isAtStart(currentIndex') ]_vars

C6_Witness ==
  /\ op = "reset"
  /\ totalSteps(steps) >= 2
  /\ currentIndex = 0
  /\ Len(events) = 1
  /\ events[1].cur = steps[1]
  /\ events[1].prev = Null

\* the last thing that ran is a timer tick: no call came between the ticks
Undisturbed == op = "tick"

\* an automatic pause happens with the cursor at the last index
StopsAtLastIndex ==
  [][ (op' = "tick" /\ playing /\ ~playing') =>
        currentIndex' = Len(steps') - 1 ]_vars

\* C7 as stated: after play(), for every sequence held by the Stepper (the
\* empty one included) and every cursor, if ticks keep firing and nothing
\* else is called, isPlaying eventually becomes false, at the last index
\* (a tick that leaves the Animator playing is followed by a pause or by a
\* call other than a tick)
C7_PlaybackEndsAnySequence ==
  /\ (playing /\ Undisturbed) ~> (~playing \/ ~Undisturbed)
  /\ StopsAtLastIndex

\* C7 amended: after play(), for every non-empty sequence held by the
\* Stepper and every cursor, if ticks keep firing and nothing else is
\* called, isPlaying eventually becomes false without a pause() call, and
\* when it does the cursor is at the last index
C7_PlaybackEnds ==
  /\ (playing /\ Undisturbed /\ Len(steps) >= 1) ~>
       (~playing \/ ~Undisturbed)
  /\ StopsAtLastIndex

C7_Witness ==
  /\ op = "tick"
  /\ ~playing
  /\ Len(steps) >= 2
  /\ currentIndex = Len(steps) - 1
  /\ Len(events) >= 1
  /\ events[1].kind = "step"

\* C8: play() while playing and pause() while paused change nothing and
\* invoke no observer; toggle() pauses when playing and plays when paused
C8_IdempotentPlayPause ==
  [][ /\ ((op' = "play" /\ playing) \/ (op' = "pause" /\ ~playing)) =>
           /\ UNCHANGED <<playing, intervalId, timers, speed,
                          steps, currentIndex>>
           /\ events' = <<>>
      /\ (op' = "toggle" /\ playing) =>
           /\ ~playing'
           /\ intervalId' = NoTimer
           /\ timers' = {t \in timers : t.id # intervalId}
           /\ events' = (IF onStateChange
                         THEN <<[kind |-> "state", playing |-> FALSE]>>
                         ELSE <<>>)
           /\ UNCHANGED <<speed, steps, currentIndex>>
      /\ (op' = "toggle" /\ ~playing) =>
           /\ playing'
           /\ intervalId' \in TimerIds
           /\ timers' = timers \cup {[id |-> intervalId', period |-> speed]}
           /\ Cardinality(timers') = Cardinality(timers) + 1
           /\ events' = (IF onStateChange
                         THEN <<[kind |-> "state", playing |-> TRUE]>>
                         ELSE <<>>)
           /\ UNCHANGED <<speed, steps, currentIndex>> ]_vars

C8_Witness ==
  /\ op = "play"
  /\ playing
  /\ onStateChange
  /\ events = <<>>
  /\ Cardinality(timers) = 1

\* C9: while playing, the one scheduled timer has the period last given to
\* the constructor or setSpeed; setSpeed while playing pauses before it
\* plays again, leaves no timer of the old period and keeps isPlaying
C9_TimerHasCurrentSpeed ==
  /\ [](playing => timers = {[id |-> intervalId, period |-> speed]})
  /\ [][ op' = "setSpeed" =>
           /\ speed' = arg'[1]
           /\ playing' = playing
           /\ \A t \in timers' : t.period = speed'
           /\ (playing /\ onStateChange) =>
                events' = <<[kind |-> "state", playing |-> FALSE],
                            [kind |-> "state", playing |-> TRUE]>> ]_vars

C9_Witness ==
  /\ op = "setSpeed" /\ arg = <<400>>
  /\ playing
  /\ Len(events) = 2
  /\ timers = {[id |-> intervalId, period |-> 400]}

\* C10: a timer is scheduled exactly when isPlaying is true, there is at
\* most one, and no tick runs while the Animator is paused
C10_TimerIffPlaying ==
  /\ []((timers # {}) <=> playing)
  /\ [](Cardinality(timers) <= 1)
  /\ [][ op' = "tick" => playing ]_vars

C10_Witness ==
  /\ op = "tick"
  /\ ~playing
  /\ timers = {}
  /\ intervalId = NoTimer

\* the values handed to the Animator's observer by the last operation
StateValues(ev) ==
  LET sel == SelectSeq(ev, LAMBDA x : x.kind = "state")
  IN  [k \in 1..Len(sel) |-> sel[k].playing]

\* C11 as stated: the Animator's observer is invoked once, with the new
\* value, by every operation or tick that changes isPlaying and never by one
\* that leaves isPlaying unchanged
C11_ObserverOncePerChangeOnly ==
  [][ onStateChange =>
        StateValues(events') =
          (IF playing' # playing THEN <<playing'>> ELSE <<>>) ]_vars

\* C11 amended: the observer is invoked once with the new value for each
\* change of isPlaying (the automatic pause included); play(), pause(),
\* toggle(), a tick and every Stepper call that leave isPlaying unchanged
\* never invoke it, while setSpeed(ms) on a playing Animator invokes it
\* twice (false, then true) although isPlaying ends unchanged; the notified
\* values alternate starting with true and the last one equals isPlaying
C11_ObserverOncePerChange ==
  [][ onStateChange =>
        LET v == StateValues(events')
        IN  /\ op' # "setSpeed" =>
                 v = (IF playing' # playing THEN <<playing'>> ELSE <<>>)
            /\ op' = "setSpeed" =>
                 v = (IF playing THEN <<FALSE, TRUE>> ELSE <<>>)
            /\ v = <<>> => playing' = playing
            /\ v # <<>> =>
                 /\ v[1] = ~playing
                 /\ v[Len(v)] = playing'
                 /\ \A k \in 1..(Len(v) - 1) : v[k + 1] = ~v[k] ]_vars

C11_Witness ==
  /\ op = "tick"
  /\ onStateChange
  /\ ~playing
  /\ Len(events) = 2
  /\ events[1].kind = "step"
  /\ events[2] = [kind |-> "state", playing |-> FALSE]

\* the Animator's notification of a pause, when it has an observer
PauseNotice ==
  IF onStateChange THEN <<[kind |-> "state", playing |-> FALSE]>> ELSE <<>>

\* C28: during playback from a cursor c < n - 1 every tick moves the cursor
\* forward by exactly 1 and fires exactly one step notification, for the
\* index it lands on; the Animator keeps playing until the tick that lands
\* on n - 1 (so n - 1 - c ticks fire), and that tick delivers the step
\* notification for n - 1 before the isPlaying = false notification; a
\* tick that finds the cursor at n - 1 moves nothing, fires no step
\* notification and pauses, and no tick follows a pause
C28_PlaybackSteps ==
  /\ [][ op' = "tick" =>
           LET c == currentIndex
               n == Len(steps)
               landed == [kind |-> "step", cur |-> At(steps, c + 1),
                          prev |-> At(steps, c), index |-> c + 1,
                          total |-> n]
           IN  /\ playing
               /\ steps' = steps
               /\ c < n - 1 =>
                    /\ currentIndex' = c + 1
                    /\ c + 1 < n - 1 =>
                         /\ events' = <<landed>>
                         /\ playing' /\ timers' = timers
                    /\ c + 1 = n - 1 =>
                         /\ events' = <<landed>> \o PauseNotice
                         /\ ~playing' /\ timers' = {}
               /\ (n >= 1 /\ c = n - 1) =>
                    /\ currentIndex' = c
                    /\ events' = PauseNotice
                    /\ ~playing' /\ timers' = {} ]_vars
  /\ (playing /\ Undisturbed /\ currentIndex < Len(steps) - 1) ~>
       ((~playing /\ currentIndex = Len(steps) - 1) \/ ~Undisturbed)

\* the last tick of a playback over three steps
C28_Witness ==
  /\ op = "tick"
  /\ Len(steps) = 3
  /\ currentIndex = 2
  /\ ~playing
  /\ timers = {}
  /\ events = <<[kind |-> "step", cur |-> steps[3], prev |-> steps[2],
                 index |-> 2, total |-> 3],
                [kind |-> "state", playing |-> FALSE]>>

\* C29: on a non-empty sequence, next, prev and goTo never change isPlaying,
\* the timer or the Animator's observer; among navigation calls and ticks
\* the Animator pauses only in a tick, exactly in a tick that leaves the
\* Stepper at the last index; so "playing with the cursor at the last
\* index" can be reached by navigation, and the next tick ends it without
\* moving the cursor
C29_NavigationDuringPlayback ==
  [][ Len(steps) >= 1 =>
        /\ op' \in NavOps =>
             /\ playing' = playing
             /\ timers' = timers
             /\ intervalId' = intervalId
             /\ StateValues(events') = <<>>
        /\ op' = "tick" =>
             /\ ~playing' <=> currentIndex' = Len(steps) - 1
             /\ ~playing' => StateValues(events') = StateValues(PauseNotice)
             /\ playing' => StateValues(events') = <<>>
             /\ currentIndex = Len(steps) - 1 =>
                  (~playing' /\ currentIndex' = currentIndex) ]_vars

\* goTo(last) during playback: playing with the cursor at the last index
C29_Witness ==
  /\ op = "goTo"
  /\ Len(steps) = 3
  /\ arg = <<2>>
  /\ currentIndex = 2
  /\ playing
  /\ timers # {}
  /\ Len(events) = 1

\* ===================================================================
\* Algorithm engines (algorithms/*.js): pure functions.  A call is one
\* step that records the function in op, its arguments in arg and its
\* result in ret; the Stepper and the Animator stay as constructed.  The
\* engines keep no state between calls, so every call starts afresh.
\* ===================================================================
NavVars == <<steps, currentIndex, playing, intervalId, speed, onStateChange,
             timers, phase, events>>

\* no Stepper sequence installed, Animator idle, nothing called yet
EngineInit ==
  /\ steps = <<>>
  /\ currentIndex = 0
  /\ playing = FALSE
  /\ intervalId = NoTimer
  /\ speed = DefaultSpeed
  /\ onStateChange = TRUE
  /\ timers = {}
  /\ phase = FALSE
  /\ op = "new"
  /\ arg = <<>>
  /\ ret = <<>>
  /\ events = <<>>
  /\ currentAlgo = "aes"
  /\ stepper = FALSE
  /\ animator = FALSE
  /\ currentRoundKeys = <<>>
  /\ inputError = ""

\* a thrown RangeError, told apart by the check that threw it
Throw(e) == [ok |-> FALSE, error |-> e]
Return(v) == [ok |-> TRUE, value |-> v]

\* ------------------------------------------------------------ utils.js
Abs(a) == IF a < 0 THEN 0 - a ELSE a

\* JavaScript a % b: the remainder has the sign of the dividend
JsRem(a, b) ==
  IF a >= 0 THEN a % Abs(b) ELSE 0 - ((0 - a) % Abs(b))

RECURSIVE gcdLoop(_, _)
gcdLoop(a, b) == IF b # 0 THEN gcdLoop(b, JsRem(a, b)) ELSE a

gcd(a, b) == gcdLoop(Abs(a), Abs(b))

\* Math.floor(a / b) for b > 0
FloorDiv(a, b) == a \div b

RECURSIVE modInverseLoop(_, _, _, _)
modInverseLoop(old_r, r, old_s, s) ==
  IF r # 0
  THEN LET q == FloorDiv(old_r, r)
       IN  modInverseLoop(r, old_r - q * r, s, old_s - q * s)
  ELSE [old_r |-> old_r, old_s |-> old_s]

\* modInverse() that returns old_s without normalising it into [0, m)
modInverse_NoNormalise(a, m) ==
  LET l == modInverseLoop(a, m, 1, 0)
  IN  IF l.old_r # 1
      THEN Throw("noInverse")
      ELSE Return(l.old_s)

\* modInverse() without the check that the last remainder is 1
modInverse_NoCheck(a, m) ==
  LET l == modInverseLoop(a, m, 1, 0)
  IN  Return(JsRem(JsRem(l.old_s, m) + m, m))

modInverse(a, m) ==
  LET l == modInverseLoop(a, m, 1, 0)
  IN  IF l.old_r # 1
      THEN Throw("noInverse")
      ELSE Return(JsRem(JsRem(l.old_s, m) + m, m))

RECURSIVE modPowLoop(_, _, _, _)
modPowLoop(result, b, e, m) ==
  IF e > 0
  THEN modPowLoop(IF e % 2 = 1 THEN (result * b) % m ELSE result,
                  (b * b) % m, e \div 2, m)
  ELSE result

\* modPow() that multiplies into the result on every bit of the exponent
modPow_AlwaysMultiply(base, exp, mod) ==
  LET RECURSIVE loop(_, _, _)
      loop(result, b, e) ==
        IF e > 0
        THEN loop((result * b) % mod, (b * b) % mod, e \div 2)
        ELSE result
  IN  loop(1, JsRem(base, mod), exp)

modPow(base, exp, mod) == modPowLoop(1, JsRem(base, mod), exp, mod)

\* -------------------------------------------------------------- rsa.js
RECURSIVE isPrimeLoop(_, _)
isPrimeLoop(n, i) ==
  IF i * i <= n
  THEN IF n % i = 0 \/ n % (i + 2) = 0
       THEN FALSE
       ELSE isPrimeLoop(n, i + 6)
  ELSE TRUE

\* isPrime() without the trial-division loop
isPrime_NoLoop(n) ==
  IF n < 2 THEN FALSE
  ELSE IF n < 4 THEN TRUE
  ELSE IF n % 2 = 0 \/ n % 3 = 0 THEN FALSE
  ELSE TRUE

isPrime(n) ==
  IF n < 2 THEN FALSE
  ELSE IF n < 4 THEN TRUE
  ELSE IF n % 2 = 0 \/ n % 3 = 0 THEN FALSE
  ELSE isPrimeLoop(n, 5)

generateRSAKeys(p, q, e) ==
  IF ~isPrime(p) THEN Throw("pNotPrime")
  ELSE IF ~isPrime(q) THEN Throw("qNotPrime")
  ELSE IF p = q THEN Throw("equalPrimes")
  ELSE LET n == p * q
           phi == (p - 1) * (q - 1)
       IN  IF e < 2 \/ e >= phi THEN Throw("eOutOfRange")
           ELSE IF gcd(e, phi) # 1 THEN Throw("notCoprime")
           ELSE LET d == modInverse(e, phi)
                IN  IF ~d.ok THEN d
                    ELSE Return([p |-> p, q |-> q, n |-> n, phi |-> phi,
                                 e |-> e, d |-> d.value])

rsaEncrypt(m, e, n) ==
  IF m < 0 \/ m >= n
  THEN Throw("messageOutOfRange")
  ELSE Return(modPow(m, e, n))

rsaDecrypt(c, d, n) == modPow(c, d, n)

\* one step record of the RSA trace (display strings left out)
RSAStep(id, ph, operation, values) ==
  [algorithm |-> "rsa", id |-> id, phase |-> ph, operation |-> operation,
   values |-> values]

\* buildRSASteps() that assumes the round trip instead of comparing
buildRSASteps_AssumeMatch(message, p, q, e) ==
  LET keys == generateRSAKeys(p, q, e)
  IN  IF ~keys.ok THEN keys
      ELSE
      LET n == keys.value.n
          phi == keys.value.phi
          d == keys.value.d
          enc == rsaEncrypt(message, e, n)
      IN  IF ~enc.ok THEN enc
          ELSE
          LET ciphertext == enc.value
              decrypted == rsaDecrypt(ciphertext + 1, d, n)
          IN  Return(<<
    RSAStep("rsa-keygen-primes", "keygen", "choosePrimes",
            [p |-> p, q |-> q]),
    RSAStep("rsa-keygen-n", "keygen", "computeN",
            [p |-> p, q |-> q, n |-> n]),
    RSAStep("rsa-keygen-phi", "keygen", "computePhi",
            [p |-> p, q |-> q, n |-> n, phi |-> phi]),
    RSAStep("rsa-keygen-e", "keygen", "chooseE",
            [e |-> e, phi |-> phi, gcdResult |-> gcd(e, phi)]),
    RSAStep("rsa-keygen-d", "keygen", "computeD",
            [e |-> e, phi |-> phi, d |-> d]),
    RSAStep("rsa-keygen-keys", "keygen", "showKeys",
            [e |-> e, n |-> n, d |-> d]),
    RSAStep("rsa-encrypt-input", "encrypt", "inputMessage",
            [message |-> message, n |-> n]),
    RSAStep("rsa-encrypt-compute", "encrypt", "computePower",
            [message |-> message, e |-> e, n |-> n]),
    RSAStep("rsa-encrypt-result", "encrypt", "showCipher",
            [ciphertext |-> ciphertext]),
    RSAStep("rsa-decrypt-input", "decrypt", "inputCipher",
            [ciphertext |-> ciphertext]),
    RSAStep("rsa-decrypt-compute", "decrypt", "computeDecrypt",
            [ciphertext |-> ciphertext, d |-> d, n |-> n]),
    RSAStep("rsa-decrypt-result", "decrypt", "showPlain",
            [decrypted |-> decrypted, original |-> message,
             match |-> TRUE]) >>)

buildRSASteps(message, p, q, e) ==
  LET keys == generateRSAKeys(p, q, e)
  IN  IF ~keys.ok THEN keys
      ELSE
      LET n == keys.value.n
          phi == keys.value.phi
          d == keys.value.d
          enc == rsaEncrypt(message, e, n)
      IN  IF ~enc.ok THEN enc
          ELSE
          LET ciphertext == enc.value
              decrypted == rsaDecrypt(ciphertext, d, n)
              match == decrypted = message
          IN  Return(<<
    RSAStep("rsa-keygen-primes", "keygen", "choosePrimes",
            [p |-> p, q |-> q]),
    RSAStep("rsa-keygen-n", "keygen", "computeN",
            [p |-> p, q |-> q, n |-> n]),
    RSAStep("rsa-keygen-phi", "keygen", "computePhi",
            [p |-> p, q |-> q, n |-> n, phi |-> phi]),
    RSAStep("rsa-keygen-e", "keygen", "chooseE",
            [e |-> e, phi |-> phi, gcdResult |-> gcd(e, phi)]),
    RSAStep("rsa-keygen-d", "keygen", "computeD",
            [e |-> e, phi |-> phi, d |-> d]),
    RSAStep("rsa-keygen-keys", "keygen", "showKeys",
            [e |-> e, n |-> n, d |-> d]),
    RSAStep("rsa-encrypt-input", "encrypt", "inputMessage",
            [message |-> message, n |-> n]),
    RSAStep("rsa-encrypt-compute", "encrypt", "computePower",
            [message |-> message, e |-> e, n |-> n]),
    RSAStep("rsa-encrypt-result", "encrypt", "showCipher",
            [ciphertext |-> ciphertext]),
    RSAStep("rsa-decrypt-input", "decrypt", "inputCipher",
            [ciphertext |-> ciphertext]),
    RSAStep("rsa-decrypt-compute", "decrypt", "computeDecrypt",
            [ciphertext |-> ciphertext, d |-> d, n |-> n]),
    RSAStep("rsa-decrypt-result", "decrypt", "showPlain",
            [decrypted |-> decrypted, original |-> message,
             match |-> match]) >>)

\* ---------------------------------------------------------- RSA inputs
\* largest p and q tried in generateRSAKeys beside the documented pair
MaxPrimeArg == 26
\* largest p and q of the key sets a message is sent through
MaxKeyPrime == 7
\* largest public exponent tried beside the documented one
MaxExpArg == 12
\* largest message tried beside the documented one
MaxMsgArg == 36

\* the documented key pair and message (README, test vectors)
PresetP == 61
PresetQ == 53
PresetE == 17
PresetM == 65

PrimeArgs == ((0 - 1)..MaxPrimeArg) \cup {PresetP, PresetQ}
KeyPrimeArgs == (2..MaxKeyPrime) \cup {PresetP, PresetQ}
ExpArgs == ((0 - 1)..MaxExpArg) \cup {PresetE}
MsgArgs == ((0 - 1)..MaxMsgArg) \cup {PresetM}

CallGenerateRSAKeys ==
  /\ op = "new"
  /\ \E p \in PrimeArgs, q \in PrimeArgs, e \in ExpArgs :
    /\ UNCHANGED GlueVars
    /\ op' = "generateRSAKeys"
    /\ arg' = <<p, q, e>>
    /\ ret' = <<generateRSAKeys(p, q, e)>>
    /\ UNCHANGED NavVars

\* rsaEncrypt with the public key of a generated key set
CallRsaEncrypt ==
  /\ op = "new"
  /\ \E p \in KeyPrimeArgs, q \in KeyPrimeArgs, e \in ExpArgs, m \in MsgArgs :
    LET keys == generateRSAKeys(p, q, e)
    IN  /\ keys.ok
        /\ UNCHANGED GlueVars
        /\ op' = "rsaEncrypt"
        /\ arg' = <<m, e, keys.value.n>>
        /\ ret' = <<rsaEncrypt(m, e, keys.value.n)>>
        /\ UNCHANGED NavVars

CallBuildRSASteps ==
  /\ op = "new"
  /\ \E m \in MsgArgs, p \in KeyPrimeArgs, q \in KeyPrimeArgs, e \in ExpArgs :
    /\ UNCHANGED GlueVars
    /\ op' = "buildRSASteps"
    /\ arg' = <<m, p, q, e>>
    /\ ret' = <<buildRSASteps(m, p, q, e)>>
    /\ UNCHANGED NavVars

\* largest a and m tried in modInverse
MaxInvArg == 24
\* largest base and modulus tried in modPow beside the documented ones
MaxPowArg == 12
\* largest exponent tried in modPow beside the documented ones
MaxPowExp == 9

\* the documented modulus and private exponent (README, test vectors)
PresetN == 3233
PresetD == 2753

InvArgs == 1..MaxInvArg
PowBases == (0..MaxPowArg) \cup {PresetM, 2790}
PowExps == (0..MaxPowExp) \cup {PresetE, PresetD}
PowMods == (1..MaxPowArg) \cup {PresetN}

CallModInverse ==
  /\ op = "new"
  /\ \E a \in InvArgs, m \in InvArgs :
    /\ UNCHANGED GlueVars
    /\ op' = "modInverse"
    /\ arg' = <<a, m>>
    /\ ret' = <<modInverse(a, m)>>
    /\ UNCHANGED NavVars

CallModPow ==
  /\ op = "new"
  /\ \E base \in PowBases, exp \in PowExps, mod \in PowMods :
    /\ UNCHANGED GlueVars
    /\ op' = "modPow"
    /\ arg' = <<base, exp, mod>>
    /\ ret' = <<Return(modPow(base, exp, mod))>>
    /\ UNCHANGED NavVars

RSANext ==
  \/ CallGenerateRSAKeys
  \/ CallRsaEncrypt
  \/ CallBuildRSASteps
  \/ CallModInverse
  \/ CallModPow

RSASpec == EngineInit /\ [][RSANext]_vars

\* ------------------------------------------------------- RSA properties
\* primality by definition: no divisor strictly between 1 and n
IsPrimeNumber(n) == n >= 2 /\ \A k \in 2..(n - 1) : n % k # 0

\* the greatest common divisor by definition
GcdIsOne(a, b) == \A k \in 2..a : ~(a % k = 0 /\ b % k = 0)

\* (m^e) mod n from m^0 = 1, m^1 = m and m^(a+b) = m^a * m^b
RECURSIVE PowerMod(_, _, _)
PowerMod(m, e, n) ==
  IF e = 0 THEN 1 % n
  ELSE IF e = 1 THEN m % n
  ELSE LET h == e \div 2
       IN  (PowerMod(m, h, n) * PowerMod(m, e - h, n)) % n

\* C15: generateRSAKeys(p, q, e) succeeds exactly when p and q are prime,
\* p # q, 2 <= e < phi and gcd(e, phi) = 1; otherwise it throws the error of
\* the first violated check in that order; on success n = p*q,
\* phi = (p-1)(q-1), 0 < d < phi and (e*d) mod phi = 1
C15_GenerateKeys ==
  op = "generateRSAKeys" =>
    LET p == arg[1]
        q == arg[2]
        e == arg[3]
        phi == (p - 1) * (q - 1)
        r == ret[1]
    IN  IF ~IsPrimeNumber(p) THEN r = Throw("pNotPrime")
        ELSE IF ~IsPrimeNumber(q) THEN r = Throw("qNotPrime")
        ELSE IF p = q THEN r = Throw("equalPrimes")
        ELSE IF ~(2 <= e /\ e < phi) THEN r = Throw("eOutOfRange")
        ELSE IF ~GcdIsOne(e, phi) THEN r = Throw("notCoprime")
        ELSE /\ r.ok
             /\ r.value.p = p /\ r.value.q = q /\ r.value.e = e
             /\ r.value.n = p * q
             /\ r.value.phi = phi
             /\ 0 < r.value.d /\ r.value.d < phi
             /\ (e * r.value.d) % phi = 1

C15_Witness ==
  /\ op = "generateRSAKeys"
  /\ arg = <<7, 5, 11>>
  /\ ret[1].ok
  /\ ret[1].value.d = 11

\* C16: for every generated key set and every m with 0 <= m < n, coprime
\* to n or not, decrypting the encryption of m gives m; rsaEncrypt throws
\* a range error exactly when m < 0 or m >= n
C16_RoundTrip ==
  /\ op = "rsaEncrypt" =>
       LET m == arg[1]
           e == arg[2]
           n == arg[3]
       IN  IF m < 0 \/ m >= n
           THEN ret[1] = Throw("messageOutOfRange")
           ELSE ret[1] = Return(PowerMod(m, e, n))
  /\ (op = "buildRSASteps" /\ ret[1].ok) =>
       LET st == ret[1].value
           m == arg[1]
       IN  /\ 0 <= m /\ m < st[7].values.n
           /\ st[9].values.ciphertext =
                PowerMod(m, st[6].values.e, st[6].values.n)
           /\ st[11].values.ciphertext = st[9].values.ciphertext
           /\ st[11].values.d = st[6].values.d
           /\ st[12].values.decrypted = m

\* a message that shares a factor with n = 5 * 7 goes through the round trip
C16_Witness ==
  /\ op = "buildRSASteps"
  /\ arg = <<10, 5, 7, 11>>
  /\ ret[1].ok
  /\ ret[1].value[9].values.ciphertext # 10
  /\ ret[1].value[12].values.decrypted = 10

\* C17: p = 61, q = 53, e = 17 give n = 3233 and d = 2753; M = 65 encrypts
\* to 2790 under (17, 3233) and 2790 decrypts to 65 under (2753, 3233)
C17_KnownAnswer ==
  /\ (op = "generateRSAKeys" /\ arg = <<PresetP, PresetQ, PresetE>>) =>
       /\ ret[1].ok
       /\ ret[1].value.n = 3233
       /\ ret[1].value.d = 2753
  /\ (op = "rsaEncrypt" /\ arg = <<PresetM, PresetE, 3233>>) =>
       ret[1] = Return(2790)
  /\ (op = "buildRSASteps" /\ arg = <<PresetM, PresetP, PresetQ, PresetE>>) =>
       /\ ret[1].ok
       /\ ret[1].value[11].values = [ciphertext |-> 2790, d |-> 2753,
                                     n |-> 3233]
       /\ ret[1].value[12].values.decrypted = 65

C17_Witness ==
  /\ op = "buildRSASteps"
  /\ arg = <<PresetM, PresetP, PresetQ, PresetE>>
  /\ ret[1].ok
  /\ ret[1].value[9].values.ciphertext = 2790

RSAOperations ==
  <<"choosePrimes", "computeN", "computePhi", "chooseE", "computeD",
    "showKeys", "inputMessage", "computePower", "showCipher",
    "inputCipher", "computeDecrypt", "showPlain">>

RSAPhaseOf(k) ==
  IF k <= 6 THEN "keygen" ELSE IF k <= 9 THEN "encrypt" ELSE "decrypt"

\* the inputs buildRSASteps accepts
ValidRSAInput(m, p, q, e) ==
  /\ IsPrimeNumber(p) /\ IsPrimeNumber(q) /\ p # q
  /\ 2 <= e /\ e < (p - 1) * (q - 1)
  /\ GcdIsOne(e, (p - 1) * (q - 1))
  /\ 0 <= m /\ m < p * q

\* C18: for every valid (message, p, q, e) buildRSASteps returns exactly 12
\* steps with the operations and phases in the fixed order; the last step
\* carries match, the comparison of the decrypted value with the original
\* message, and match is true
C18_RSATrace ==
  op = "buildRSASteps" =>
    LET m == arg[1]
        r == ret[1]
    IN  /\ r.ok <=> ValidRSAInput(m, arg[2], arg[3], arg[4])
        /\ r.ok =>
             LET st == r.value
             IN  /\ Len(st) = 12
                 /\ \A k \in 1..12 :
                      /\ st[k].algorithm = "rsa"
                      /\ st[k].operation = RSAOperations[k]
                      /\ st[k].phase = RSAPhaseOf(k)
                 /\ st[12].values.original = m
                 /\ st[12].values.decrypted =
                      PowerMod(st[11].values.ciphertext, st[11].values.d,
                               st[11].values.n)
                 /\ st[12].values.match =
                      (st[12].values.decrypted = st[12].values.original)
                 /\ st[12].values.match = TRUE

C18_Witness ==
  /\ op = "buildRSASteps"
  /\ arg = <<2, 3, 5, 3>>
  /\ ret[1].ok
  /\ Len(ret[1].value) = 12
  /\ ret[1].value[12].values.match = TRUE

\* C23: for a >= 1 and m >= 1, modInverse(a, m) fails with the no-inverse
\* error exactly when gcd(a, m) # 1 (modInverse(4, 8) fails) and otherwise
\* returns x with 0 <= x < m and (a * x) mod m = 1 mod m
C23_ModInverse ==
  op = "modInverse" =>
    LET a == arg[1]
        m == arg[2]
        r == ret[1]
    IN  /\ ~r.ok <=> ~GcdIsOne(a, m)
        /\ ~r.ok => r.error = "noInverse"
        /\ r.ok => /\ r.value \in 0..(m - 1)
                   /\ (a * r.value) % m = 1 % m
        /\ (a = 4 /\ m = 8) => ~r.ok

\* an inverse that the loop leaves negative: 7 * 7 = 1 mod 12
C23_Witness ==
  /\ op = "modInverse"
  /\ arg = <<7, 12>>
  /\ modInverseLoop(7, 12, 1, 0).old_s < 0
  /\ ret = <<Return(7)>>

\* C24: for base >= 0, exp >= 0 and modulus >= 1, modPow(base, exp,
\* modulus) returns (base^exp) mod modulus, a value in 0..modulus-1
C24_ModPow ==
  op = "modPow" =>
    LET base == arg[1]
        exp == arg[2]
        mod == arg[3]
    IN  /\ ret[1].ok
        /\ ret[1].value = PowerMod(base, exp, mod)
        /\ ret[1].value \in 0..(mod - 1)

\* ============================================================ caesar.js
\* A string is the sequence of its UTF-16 code units (charCodeAt /
\* String.fromCharCode); a character is one code unit.
ALPHABET_SIZE == 26

\* shiftChar() without the second "+ 26, % 26" of the normalisation
shiftChar_NoNormalise(code, shift) ==
  IF (code >= 65 /\ code <= 90) \/ (code >= 97 /\ code <= 122)
  THEN LET base == IF code >= 65 /\ code <= 90 THEN 65 ELSE 97
           pos == code - base
           newPos == JsRem(pos + shift, ALPHABET_SIZE)
       IN  [original |-> code, shifted |-> base + newPos, isAlpha |-> TRUE,
            base |-> base, pos |-> pos, newPos |-> newPos]
  ELSE [original |-> code, shifted |-> code, isAlpha |-> FALSE,
        base |-> 0, pos |-> 0, newPos |-> 0]

shiftChar(code, shift) ==
  IF (code >= 65 /\ code <= 90) \/ (code >= 97 /\ code <= 122)
  THEN LET base == IF code >= 65 /\ code <= 90 THEN 65 ELSE 97
           pos == code - base
           newPos == JsRem(JsRem(pos + shift, ALPHABET_SIZE) + ALPHABET_SIZE,
                           ALPHABET_SIZE)
       IN  [original |-> code, shifted |-> base + newPos, isAlpha |-> TRUE,
            base |-> base, pos |-> pos, newPos |-> newPos]
  ELSE [original |-> code, shifted |-> code, isAlpha |-> FALSE,
        base |-> 0, pos |-> 0, newPos |-> 0]

caesarEncrypt(text, shift) ==
  [i \in 1..Len(text) |-> shiftChar(text[i], shift).shifted]

\* caesarDecrypt() that forgets to negate the shift
caesarDecrypt_SameShift(text, shift) == caesarEncrypt(text, shift)

caesarDecrypt(text, shift) == caesarEncrypt(text, 0 - shift)

\* normalizedShift that keeps the sign of JavaScript's remainder
normalizeShift_SingleMod(shift) == JsRem(shift, ALPHABET_SIZE)

\* normalizedShift of buildCaesarSteps
normalizeShift(shift) ==
  JsRem(JsRem(shift, ALPHABET_SIZE) + ALPHABET_SIZE, ALPHABET_SIZE)

\* status of entry j in the step of character i that stays active behind
\* the cursor
charStatus_NeverDone(j, i) == IF j <= i THEN "active" ELSE "pending"

\* status of entry j in the encrypt step of character i
charStatus(j, i) ==
  IF j < i THEN "done" ELSE IF j = i THEN "active" ELSE "pending"

\* { ...r, status }
withStatus(r, status) ==
  [original |-> r.original, shifted |-> r.shifted, isAlpha |-> r.isAlpha,
   base |-> r.base, pos |-> r.pos, newPos |-> r.newPos, status |-> status]

\* charResults.map((r) => ({ ...r, status }))
allStatus(charResults, status) ==
  [j \in 1..Len(charResults) |-> withStatus(charResults[j], status)]

\* the step pushed for character i (0-based); ciphertextSoFar has grown by
\* one shifted character per iteration
charStep(plaintext, normalizedShift, charResults, i) ==
  [algorithm |-> "caesar", id |-> <<"caesar-char", i>>, phase |-> "encrypt",
   plaintext |-> plaintext, shift |-> normalizedShift,
   currentCharIndex |-> i,
   charResults |-> [k \in 1..Len(charResults) |->
                      withStatus(charResults[k], charStatus(k - 1, i))],
   ciphertextSoFar |-> [k \in 1..(i + 1) |-> charResults[k].shifted]]

\* The step objects keep the fields the visualizer reads from; label,
\* description and formula are display text built from the same values.
buildCaesarSteps(plaintext, shift) ==
  IF Len(plaintext) = 0 THEN Throw("emptyText")
  ELSE LET normalizedShift == normalizeShift(shift)
       IN  IF normalizedShift = 0 THEN Throw("shiftOutOfRange")
           ELSE
    LET chars == plaintext
        charResults == [k \in 1..Len(chars) |->
                          shiftChar(chars[k], normalizedShift)]
        fullCiphertext == [k \in 1..Len(chars) |-> charResults[k].shifted]
        decrypted == caesarDecrypt(fullCiphertext, normalizedShift)
    IN  Return(
          <<[algorithm |-> "caesar", id |-> <<"caesar-overview">>,
             phase |-> "overview", plaintext |-> plaintext,
             shift |-> normalizedShift,
             charResults |-> allStatus(charResults, "pending"),
             ciphertextSoFar |-> <<>>]>>
          \o [i \in 1..Len(chars) |->
                charStep(plaintext, normalizedShift, charResults, i - 1)]
          \o <<[algorithm |-> "caesar", id |-> <<"caesar-result">>,
                phase |-> "result", plaintext |-> plaintext,
                shift |-> normalizedShift,
                charResults |-> allStatus(charResults, "done"),
                ciphertextSoFar |-> fullCiphertext,
                values |-> [plaintext |-> plaintext,
                            ciphertext |-> fullCiphertext,
                            shift |-> normalizedShift]],
               [algorithm |-> "caesar", id |-> <<"caesar-decrypt-verify">>,
                phase |-> "decrypt", plaintext |-> plaintext,
                shift |-> normalizedShift,
                charResults |-> allStatus(charResults, "done"),
                ciphertextSoFar |-> fullCiphertext,
                values |-> [ciphertext |-> fullCiphertext,
                            decrypted |-> decrypted,
                            match |-> IF decrypted = plaintext
                                      THEN "Yes" ELSE "No"]]>>)

\* -------------------------------------------------------- Caesar inputs
\* longest text tried beside the documented one
MaxTextLen == 2
\* largest shift tried, in both directions
MaxShift == 27

\* the documented text, shift and ciphertext (README, test vectors)
HelloWorld == <<72, 101, 108, 108, 111, 44, 32, 87, 111, 114, 108, 100, 33>>
HelloShift == 3
KhoorZruog == <<75, 104, 111, 111, 114, 44, 32, 90, 114, 117, 111, 103, 33>>

\* A Z a z m, and the neighbours of the two letter ranges: @ [ ` { space
Chars == {65, 90, 97, 122, 109, 64, 91, 96, 123, 32}
Texts == UNION {[1..n -> Chars] : n \in 0..MaxTextLen} \cup {HelloWorld}
Shifts == (0 - MaxShift)..MaxShift

CallCaesarEncrypt ==
  /\ op = "new"
  /\ \E text \in Texts, shift \in Shifts :
       /\ UNCHANGED GlueVars
       /\ op' = "caesarEncrypt"
       /\ arg' = <<text, shift>>
       /\ ret' = <<caesarEncrypt(text, shift)>>
       /\ UNCHANGED NavVars

\* the ciphertext just produced is decrypted with the same shift
CallCaesarDecrypt ==
  /\ op = "caesarEncrypt"
  /\ UNCHANGED GlueVars
  /\ op' = "caesarDecrypt"
  /\ arg' = <<ret[1], arg[2]>>
  /\ ret' = <<caesarDecrypt(ret[1], arg[2])>>
  /\ UNCHANGED NavVars

CallBuildCaesarSteps ==
  /\ op = "new"
  /\ \E text \in Texts, shift \in Shifts :
       /\ UNCHANGED GlueVars
       /\ op' = "buildCaesarSteps"
       /\ arg' = <<text, shift>>
       /\ ret' = <<buildCaesarSteps(text, shift)>>
       /\ UNCHANGED NavVars

CaesarNext ==
  \/ CallCaesarEncrypt
  \/ CallCaesarDecrypt
  \/ CallBuildCaesarSteps

CaesarSpec == EngineInit /\ [][CaesarNext]_vars

\* ---------------------------------------------------- Caesar properties
\* C19: for every text and every integer shift s, 1..25 included,
\* caesarDecrypt(caesarEncrypt(text, s), s) = text
C19_CaesarRoundTrip ==
  [][ (op = "caesarEncrypt" /\ op' = "caesarDecrypt") =>
        /\ arg' = <<ret[1], arg[2]>>
        /\ ret'[1] = arg[1] ]_vars

C19_Witness ==
  /\ op = "caesarDecrypt"
  /\ arg = <<KhoorZruog, HelloShift>>
  /\ ret = <<HelloWorld>>

IsUpper(c) == c \in 65..90
IsLower(c) == c \in 97..122

\* C20: caesarEncrypt maps every character on its own: a letter at
\* alphabet position pos becomes the letter of the same case at position
\* (pos + shift) mod 26, any other character stays, the length is kept, and
\* "Hello, World!" with shift 3 gives "Khoor, Zruog!"
C20_CaesarEncrypt ==
  op = "caesarEncrypt" =>
    LET text == arg[1]
        shift == arg[2]
        out == ret[1]
    IN  /\ Len(out) = Len(text)
        /\ \A i \in 1..Len(text) :
             out[i] = (IF IsUpper(text[i])
                       THEN 65 + ((text[i] - 65 + shift) % 26)
                       ELSE IF IsLower(text[i])
                       THEN 97 + ((text[i] - 97 + shift) % 26)
                       ELSE text[i])
        /\ (text = HelloWorld /\ shift = HelloShift) => out = KhoorZruog

C20_Witness ==
  /\ op = "caesarEncrypt"
  /\ arg = <<HelloWorld, HelloShift>>
  /\ ret = <<KhoorZruog>>

\* C21: buildCaesarSteps(text, shift) fails with an input error when the
\* text is empty or the shift is a multiple of 26; otherwise, for n
\* characters, it returns n + 3 steps: overview, one encrypt step per
\* character in input order, result, decrypt verification; every step
\* carries the shift normalised into 1..25 and the verification step
\* reports that the recovered text equals the original
C21_CaesarTrace ==
  op = "buildCaesarSteps" =>
    LET text == arg[1]
        shift == arg[2]
        r == ret[1]
        n == Len(text)
    IN  IF n = 0 \/ shift % 26 = 0
        THEN /\ ~r.ok
             /\ r.error = (IF n = 0 THEN "emptyText" ELSE "shiftOutOfRange")
        ELSE /\ r.ok
             /\ Len(r.value) = n + 3
             /\ r.value[1].phase = "overview"
             /\ \A i \in 1..n :
                  /\ r.value[i + 1].phase = "encrypt"
                  /\ r.value[i + 1].currentCharIndex = i - 1
                  /\ r.value[i + 1].charResults[i].original = text[i]
             /\ r.value[n + 2].phase = "result"
             /\ r.value[n + 3].phase = "decrypt"
             /\ \A k \in 1..(n + 3) :
                  /\ r.value[k].shift \in 1..25
                  /\ r.value[k].shift = shift % 26
                  /\ r.value[k].plaintext = text
             /\ r.value[n + 3].values.decrypted = text
             /\ r.value[n + 3].values.match = "Yes"

\* "Hello, World!" with shift -23, which normalises to 3
C21_Witness ==
  /\ op = "buildCaesarSteps"
  /\ arg = <<HelloWorld, HelloShift - ALPHABET_SIZE>>
  /\ ret[1].ok
  /\ Len(ret[1].value) = Len(HelloWorld) + 3
  /\ ret[1].value[1].shift = HelloShift
  /\ ret[1].value[Len(HelloWorld) + 3].values.decrypted = HelloWorld

\* the statuses of the entries of one charResults, in order
Statuses(charResults) ==
  [j \in 1..Len(charResults) |-> charResults[j].status]

\* C27: in a trace of buildCaesarSteps for n characters every step's
\* charResults has the n characters in input order; the overview step has
\* all pending and an empty ciphertextSoFar; the encrypt step of character
\* i has j < i done, i alone active, j > i pending and the encryption of
\* the first i + 1 characters; the result and verification steps have all
\* done and the whole ciphertext
C27_CharResults ==
  (op = "buildCaesarSteps" /\ ret[1].ok) =>
    LET text == arg[1]
        shift == arg[2]
        trace == ret[1].value
        n == Len(text)
    IN  /\ \A k \in 1..Len(trace) :
             /\ Len(trace[k].charResults) = n
             /\ \A j \in 1..n : trace[k].charResults[j].original = text[j]
        /\ Statuses(trace[1].charResults) = [j \in 1..n |-> "pending"]
        /\ trace[1].ciphertextSoFar = <<>>
        /\ \A i \in 0..(n - 1) :
             /\ Statuses(trace[i + 2].charResults)
                  = [j \in 1..n |-> IF j - 1 < i THEN "done"
                                     ELSE IF j - 1 = i THEN "active"
                                     ELSE "pending"]
             /\ trace[i + 2].ciphertextSoFar
                  = caesarEncrypt(SubSeq(text, 1, i + 1), shift)
        /\ \A k \in {n + 2, n + 3} :
             /\ Statuses(trace[k].charResults) = [j \in 1..n |-> "done"]
             /\ trace[k].ciphertextSoFar = caesarEncrypt(text, shift)

\* the step of the third character of "Hello, World!"
C27_Witness ==
  /\ op = "buildCaesarSteps"
  /\ arg = <<HelloWorld, HelloShift>>
  /\ ret[1].ok
  /\ Statuses(ret[1].value[4].charResults)
       = <<"done", "done", "active", "pending", "pending", "pending",
           "pending", "pending", "pending", "pending", "pending", "pending",
           "pending">>
  /\ ret[1].value[4].ciphertextSoFar = <<75, 104, 111>>
  /\ ret[1].value[16].ciphertextSoFar = KhoorZruog

(***************************************************************************)
(* AES-128 engine: utils.js, aes-operations.js, aes-key-expansion.js and   *)
(* aes.js.  A byte array is a sequence (index i of the code is i + 1       *)
(* here), a state matrix is a sequence of four rows, a hex string is the   *)
(* sequence of its UTF-16 code units.  A cell holds a number or one of     *)
(* the two non-numbers the code can produce from a malformed string: NaN   *)
(* (parseInt found no digit) and undefined (a read past the end of an      *)
(* array, or of the S-box).                                                *)
(***************************************************************************)
NaN == 0 - 1
undefined == 0 - 2

\* ToInt32 as applied by ^, & and >> : NaN and undefined become 0.
ToInt32(v) == IF v < 0 THEN 0 ELSE v

\* a[i] for a 0-based index: undefined outside the array.
Elem(a, i) == IF i >= 0 /\ i < Len(a) THEN a[i + 1] ELSE undefined

\* Array.prototype.slice(from, to) for 0 <= from <= to.
slice(a, from, to) == SubSeq(a, Min(from, Len(a)) + 1, Min(to, Len(a)))

\* a ^ b for 0 <= a, b <= 255, bit by bit: bit k of the result is the
\* sum modulo 2 of bit k of a and bit k of b.
XorBits(a, b) ==
  IF a = 0 THEN b
  ELSE IF b = 0 THEN a
  ELSE LET bit(w) == ((a \div w) + (b \div w)) % 2
       IN  (bit(1) + (2 * bit(2)) + (4 * bit(4)) + (8 * bit(8)))
             + ((16 * bit(16)) + (32 * bit(32)) + (64 * bit(64)) + (128 * bit(128)))

\* The ^ operator on the values a cell can hold.
Xor(a, b) == XorBits(ToInt32(a), ToInt32(b))

\* aes-constants.js is not among the sources; the three tables are the
\* ones of FIPS-197 that the specification's AES-128 refers to.
SBOX == <<
   99, 124, 119, 123, 242, 107, 111, 197,  48,   1, 103,  43, 254, 215, 171, 118,
  202, 130, 201, 125, 250,  89,  71, 240, 173, 212, 162, 175, 156, 164, 114, 192,
  183, 253, 147,  38,  54,  63, 247, 204,  52, 165, 229, 241, 113, 216,  49,  21,
    4, 199,  35, 195,  24, 150,   5, 154,   7,  18, 128, 226, 235,  39, 178, 117,
    9, 131,  44,  26,  27, 110,  90, 160,  82,  59, 214, 179,  41, 227,  47, 132,
   83, 209,   0, 237,  32, 252, 177,  91, 106, 203, 190,  57,  74,  76,  88, 207,
  208, 239, 170, 251,  67,  77,  51, 133,  69, 249,   2, 127,  80,  60, 159, 168,
   81, 163,  64, 143, 146, 157,  56, 245, 188, 182, 218,  33,  16, 255, 243, 210,
  205,  12,  19, 236,  95, 151,  68,  23, 196, 167, 126,  61, 100,  93,  25, 115,
   96, 129,  79, 220,  34,  42, 144, 136,  70, 238, 184,  20, 222,  94,  11, 219,
  224,  50,  58,  10,  73,   6,  36,  92, 194, 211, 172,  98, 145, 149, 228, 121,
  231, 200,  55, 109, 141, 213,  78, 169, 108,  86, 244, 234, 101, 122, 174,   8,
  186, 120,  37,  46,  28, 166, 180, 198, 232, 221, 116,  31,  75, 189, 139, 138,
  112,  62, 181, 102,  72,   3, 246,  14,  97,  53,  87, 185, 134, 193,  29, 158,
  225, 248, 152,  17, 105, 217, 142, 148, 155,  30, 135, 233, 206,  85,  40, 223,
  140, 161, 137,  13, 191, 230,  66, 104,  65, 153,  45,  15, 176,  84, 187,  22 >>

RCON == <<0, 1, 2, 4, 8, 16, 32, 64, 128, 27, 54>>

MIX_MATRIX == << <<2, 3, 1, 1>>, <<1, 2, 3, 1>>, <<1, 1, 2, 3>>, <<3, 1, 1, 2>> >>

\* SBOX[byte]: undefined when byte is NaN or undefined.
SBoxAt(byte) == IF byte \in 0..255 THEN SBOX[byte + 1] ELSE undefined

\* parseInt's digit value of a code unit in radix 16, or NaN.
hexDigitValue(c) ==
  IF c >= 48 /\ c <= 57 THEN c - 48
  ELSE IF c >= 97 /\ c <= 102 THEN c - 87
  ELSE IF c >= 65 /\ c <= 70 THEN c - 55
  ELSE NaN

\* parseInt(s, 16) for a string s of one or two code units, neither of
\* them white space, a sign or the letter x: the longest prefix of hex
\* digits, NaN when it is empty.
parseInt16(s) ==
  LET d1 == hexDigitValue(s[1])
      d2 == IF Len(s) >= 2 THEN hexDigitValue(s[2]) ELSE NaN
  IN  IF d1 = NaN THEN NaN
      ELSE IF d2 = NaN THEN d1
      ELSE (16 * d1) + d2

\* for (i = 0; i < hex.length; i += 2) bytes.push(parseInt(hex.substring(i, i + 2), 16)):
\* byte k (from 0) is parsed from the code units 2k and 2k + 1.
hexToBytes(hex) ==
  [k \in 1..((Len(hex) + 1) \div 2) |->
     parseInt16(slice(hex, 2 * (k - 1), 2 * k))]

\* Number.prototype.toString(16) digit as a code unit.
hexDigitChar(d) == IF d < 10 THEN 48 + d ELSE 87 + d

\* b.toString(16).padStart(2, '0') for a number 0 <= b <= 255.
byteToHex(b) ==
  IF b < 16 THEN <<48, hexDigitChar(b)>>
  ELSE <<hexDigitChar(b \div 16), hexDigitChar(b % 16)>>

\* bytes.map(...).join(''): code units 2k and 2k + 1 are the two digits
\* of byte k (from 0).
bytesToHex(bytes) ==
  [n \in 1..(2 * Len(bytes)) |-> byteToHex(bytes[(n + 1) \div 2])[2 - (n % 2)]]

\* bytesToMatrix() that fills the matrix row by row
bytesToMatrix_RowMajor(bytes) ==
  << <<Elem(bytes, 0), Elem(bytes, 1), Elem(bytes, 2), Elem(bytes, 3)>>,
     <<Elem(bytes, 4), Elem(bytes, 5), Elem(bytes, 6), Elem(bytes, 7)>>,
     <<Elem(bytes, 8), Elem(bytes, 9), Elem(bytes, 10), Elem(bytes, 11)>>,
     <<Elem(bytes, 12), Elem(bytes, 13), Elem(bytes, 14), Elem(bytes, 15)>> >>

\* matrix[i % 4][floor(i / 4)] = bytes[i] for i = 0..15.
bytesToMatrix(bytes) ==
  << <<Elem(bytes, 0), Elem(bytes, 4), Elem(bytes, 8), Elem(bytes, 12)>>,
     <<Elem(bytes, 1), Elem(bytes, 5), Elem(bytes, 9), Elem(bytes, 13)>>,
     <<Elem(bytes, 2), Elem(bytes, 6), Elem(bytes, 10), Elem(bytes, 14)>>,
     <<Elem(bytes, 3), Elem(bytes, 7), Elem(bytes, 11), Elem(bytes, 15)>> >>

\* bytes[col * 4 + row] = matrix[row][col].
matrixToBytes(matrix) ==
  << matrix[1][1], matrix[2][1], matrix[3][1], matrix[4][1],
     matrix[1][2], matrix[2][2], matrix[3][2], matrix[4][2],
     matrix[1][3], matrix[2][3], matrix[3][3], matrix[4][3],
     matrix[1][4], matrix[2][4], matrix[3][4], matrix[4][4] >>

clone2DArray(matrix) ==
  << <<matrix[1][1], matrix[1][2], matrix[1][3], matrix[1][4]>>,
     <<matrix[2][1], matrix[2][2], matrix[2][3], matrix[2][4]>>,
     <<matrix[3][1], matrix[3][2], matrix[3][3], matrix[3][4]>>,
     <<matrix[4][1], matrix[4][2], matrix[4][3], matrix[4][4]>> >>

\* aes-operations.js
subBytes(state) ==
  << <<SBoxAt(state[1][1]), SBoxAt(state[1][2]), SBoxAt(state[1][3]), SBoxAt(state[1][4])>>,
     <<SBoxAt(state[2][1]), SBoxAt(state[2][2]), SBoxAt(state[2][3]), SBoxAt(state[2][4])>>,
     <<SBoxAt(state[3][1]), SBoxAt(state[3][2]), SBoxAt(state[3][3]), SBoxAt(state[3][4])>>,
     <<SBoxAt(state[4][1]), SBoxAt(state[4][2]), SBoxAt(state[4][3]), SBoxAt(state[4][4])>> >>

shiftRows_Right(state) ==
  << <<state[1][1], state[1][2], state[1][3], state[1][4]>>,
     <<state[2][4], state[2][1], state[2][2], state[2][3]>>,
     <<state[3][3], state[3][4], state[3][1], state[3][2]>>,
     <<state[4][2], state[4][3], state[4][4], state[4][1]>> >>

\* row i becomes row.slice(i) followed by row.slice(0, i).
shiftRows(state) ==
  << <<state[1][1], state[1][2], state[1][3], state[1][4]>>,
     <<state[2][2], state[2][3], state[2][4], state[2][1]>>,
     <<state[3][3], state[3][4], state[3][1], state[3][2]>>,
     <<state[4][4], state[4][1], state[4][2], state[4][3]>> >>

\* The loop of gmul over its variables a, b, result and i.
\* a = (a << 1) & 0xff, then a ^= 0x1b when the high bit was set.
xtime(a) == IF a >= 128 THEN XorBits((a * 2) % 256, 27) ELSE (a * 2) % 256

RECURSIVE gmulLoop(_)
gmulLoop(v) ==
  IF v.i < 8
  THEN gmulLoop([result |-> IF v.b % 2 = 1 THEN XorBits(v.result, v.a)
                            ELSE v.result,
                 a |-> xtime(v.a),
                 b |-> v.b \div 2,
                 i |-> v.i + 1])
  ELSE v.result

gmul(a, b) ==
  gmulLoop([result |-> 0, a |-> ToInt32(a), b |-> ToInt32(b), i |-> 0])

\* gmul returns a number, so ^ applies to it as it is.
mixCell(state, row, col) ==
  XorBits(XorBits(XorBits(gmul(MIX_MATRIX[row][1], state[1][col]),
                          gmul(MIX_MATRIX[row][2], state[2][col])),
                  gmul(MIX_MATRIX[row][3], state[3][col])),
          gmul(MIX_MATRIX[row][4], state[4][col]))

mixRow(state, row) ==
  <<mixCell(state, row, 1), mixCell(state, row, 2),
    mixCell(state, row, 3), mixCell(state, row, 4)>>

mixColumns(state) ==
  <<mixRow(state, 1), mixRow(state, 2), mixRow(state, 3), mixRow(state, 4)>>

xorRow(row, keyRow) ==
  <<Xor(row[1], keyRow[1]), Xor(row[2], keyRow[2]),
    Xor(row[3], keyRow[3]), Xor(row[4], keyRow[4])>>

addRoundKey(state, roundKey) ==
  <<xorRow(state[1], roundKey[1]), xorRow(state[2], roundKey[2]),
    xorRow(state[3], roundKey[3]), xorRow(state[4], roundKey[4])>>

\* aes-key-expansion.js
NK == 4
NR == 10

rotWord(word) ==
  <<Elem(word, 1), Elem(word, 2), Elem(word, 3), Elem(word, 0)>>

\* w.map((b, j) => b ^ temp[j]): as long as w, which has at most 4 bytes.
xorWord(w, temp) ==
  SubSeq(<<Xor(Elem(w, 0), Elem(temp, 0)), Xor(Elem(w, 1), Elem(temp, 1)),
           Xor(Elem(w, 2), Elem(temp, 2)), Xor(Elem(w, 3), Elem(temp, 3))>>,
         1, Len(w))

\* The body of the word loop for i = W.length: the word W[i].
nextWord(W) ==
  LET i == Len(W)
      rot == rotWord(W[i])
      temp == IF i % NK = 0
              THEN <<Xor(SBoxAt(rot[1]), RCON[(i \div NK) + 1]),
                     SBoxAt(rot[2]), SBoxAt(rot[3]), SBoxAt(rot[4])>>
              ELSE W[i]
  IN  xorWord(W[i - NK + 1], temp)

\* One iteration of the word loop: W[i] = ... for i = W.length.
pushWord(W) == Append(W, nextWord(W))

\* for (i = NK; i < 4 * (NR + 1); i++), NK iterations at a time.
RECURSIVE wordsLoop(_)
wordsLoop(W) ==
  IF Len(W) < 4 * (NR + 1)
  THEN wordsLoop(pushWord(pushWord(pushWord(pushWord(W)))))
  ELSE W

\* key[row][col] = W[r * 4 + col][row]
packKey(W, r) ==
  << <<Elem(W[r * 4 + 1], 0), Elem(W[r * 4 + 2], 0), Elem(W[r * 4 + 3], 0), Elem(W[r * 4 + 4], 0)>>,
     <<Elem(W[r * 4 + 1], 1), Elem(W[r * 4 + 2], 1), Elem(W[r * 4 + 3], 1), Elem(W[r * 4 + 4], 1)>>,
     <<Elem(W[r * 4 + 1], 2), Elem(W[r * 4 + 2], 2), Elem(W[r * 4 + 3], 2), Elem(W[r * 4 + 4], 2)>>,
     <<Elem(W[r * 4 + 1], 3), Elem(W[r * 4 + 2], 3), Elem(W[r * 4 + 3], 3), Elem(W[r * 4 + 4], 3)>> >>

\* The 11 round keys; roundKeys[r] of the code is keyExpansion(...)[r + 1].
keyExpansion(keyBytes) ==
  LET W == wordsLoop(<<slice(keyBytes, 0, 4), slice(keyBytes, 4, 8),
                       slice(keyBytes, 8, 12), slice(keyBytes, 12, 16)>>)
  IN  [r \in 1..(NR + 1) |-> packKey(W, r - 1)]

\* aes.js
AES_ROUNDS == 10

\* prevState and roundKey of a step that has none (null in the code).
NoMatrix == <<>>

\* a !== b on cell values: NaN differs from everything, itself included.
StrictNotEqual(a, b) == a # b \/ a = NaN

\* diffIndices() that numbers the cells down the columns (c * 4 + r)
diffIndices_ColumnMajor(prevM, currM) ==
  SelectSeq(<<0, 1, 2, 3, 4, 5, 6, 7, 8, 9, 10, 11, 12, 13, 14, 15>>,
            LAMBDA k : StrictNotEqual(prevM[(k % 4) + 1][(k \div 4) + 1],
                                      currM[(k % 4) + 1][(k \div 4) + 1]))

\* The flat indices r * 4 + c, in row-major order, of the cells that differ.
diffIndices(prevM, currM) ==
  SelectSeq(<<0, 1, 2, 3, 4, 5, 6, 7, 8, 9, 10, 11, 12, 13, 14, 15>>,
            LAMBDA k : StrictNotEqual(prevM[(k \div 4) + 1][(k % 4) + 1],
                                      currM[(k \div 4) + 1][(k % 4) + 1]))

\* A step object without its display texts (id, label, description);
\* cipherHex is detail.cipherHex, empty on the steps whose detail has none.
AESStep(round, operation, state, prevState, roundKey, changedIndices, cipherHex) ==
  [algorithm |-> "aes", round |-> round, operation |-> operation,
   roundKey |-> roundKey, prevState |-> prevState, state |-> state,
   changedIndices |-> changedIndices, cipherHex |-> cipherHex]

\* One transformation of a round: prevState = clone(state), state = next,
\* and the step pushed for it.
transformStep(round, operation, prevState, state, roundKey) ==
  AESStep(round, operation, clone2DArray(state), clone2DArray(prevState),
          roundKey, diffIndices(prevState, state), <<>>)

fullRound_NoMixColumns(state, roundKeys, round) ==
  LET a == subBytes(state)
      b == shiftRows(a)
      d == addRoundKey(b, roundKeys[round + 1])
  IN  [steps |-> <<transformStep(round, "subBytes", state, a, NoMatrix),
                   transformStep(round, "shiftRows", a, b, NoMatrix),
                   transformStep(round, "addRoundKey", b, d,
                                 clone2DArray(roundKeys[round + 1]))>>,
       state |-> d]

\* The body of the round loop: the four steps it pushes and the state it
\* leaves.
fullRound(state, roundKeys, round) ==
  LET a == subBytes(state)
      b == shiftRows(a)
      c == mixColumns(b)
      d == addRoundKey(c, roundKeys[round + 1])
  IN  [steps |-> <<transformStep(round, "subBytes", state, a, NoMatrix),
                   transformStep(round, "shiftRows", a, b, NoMatrix),
                   transformStep(round, "mixColumns", b, c, NoMatrix),
                   transformStep(round, "addRoundKey", c, d,
                                 clone2DArray(roundKeys[round + 1]))>>,
       state |-> d]

\* for (round = from; round <= to; round++), the iterations taken in
\* order, first half then second half: the steps pushed and the final state.
RECURSIVE fullRoundsLoop(_, _, _, _)
fullRoundsLoop(state, roundKeys, from, to) ==
  IF from > to THEN [steps |-> <<>>, state |-> state]
  ELSE IF from = to THEN fullRound(state, roundKeys, from)
  ELSE LET mid == (from + to) \div 2
           left == fullRoundsLoop(state, roundKeys, from, mid)
           right == fullRoundsLoop(left.state, roundKeys, mid + 1, to)
       IN  [steps |-> left.steps \o right.steps, state |-> right.state]

\* buildAESSteps has no throw statement and calls nothing that throws on
\* a string: every call returns the array of steps.
buildAESSteps(plaintextHex, keyHex) ==
  LET plainBytes == hexToBytes(plaintextHex)
      keyBytes == hexToBytes(keyHex)
      state0 == bytesToMatrix(plainBytes)
      roundKeys == keyExpansion(keyBytes)
      state1 == addRoundKey(state0, roundKeys[1])
      first == <<AESStep(0, "initial", clone2DArray(state0), NoMatrix,
                         NoMatrix, <<>>, <<>>),
                 transformStep(0, "addRoundKey", state0, state1,
                               clone2DArray(roundKeys[1]))>>
      rounds == fullRoundsLoop(state1, roundKeys, 1, AES_ROUNDS - 1)
      a == subBytes(rounds.state)
      b == shiftRows(a)
      c == addRoundKey(b, roundKeys[11])
      cipherHex == bytesToHex(matrixToBytes(c))
  IN  Return(first \o rounds.steps \o
             <<transformStep(10, "subBytes", rounds.state, a, NoMatrix),
               transformStep(10, "shiftRows", a, b, NoMatrix),
               transformStep(10, "addRoundKey", b, c,
                             clone2DArray(roundKeys[11])),
               AESStep(10, "complete", clone2DArray(c), NoMatrix, NoMatrix,
                       <<>>, cipherHex)>>)

\* main.js: /^[0-9a-fA-F]{32}$/.test(value), the only place where the
\* program rejects a malformed hex string.
validateHex(value) ==
  IF Len(value) = 32 /\ \A i \in 1..Len(value) : hexDigitValue(value[i]) # NaN
  THEN Return(undefined)
  ELSE Throw("RangeError")

\* README test vector (FIPS-197 Appendix B).
KatPlaintext ==
  <<51, 50, 52, 51, 102, 54, 97, 56, 56, 56, 53, 97, 51, 48, 56, 100,
     51, 49, 51, 49, 57, 56, 97, 50, 101, 48, 51, 55, 48, 55, 51, 52>>
KatKey ==
  <<50, 98, 55, 101, 49, 53, 49, 54, 50, 56, 97, 101, 100, 50, 97, 54,
     97, 98, 102, 55, 49, 53, 56, 56, 48, 57, 99, 102, 52, 102, 51, 99>>
KatCipher ==
  <<51, 57, 50, 53, 56, 52, 49, 100, 48, 50, 100, 99, 48, 57, 102, 98,
     100, 99, 49, 49, 56, 53, 57, 55, 49, 57, 54, 97, 48, 98, 51, 50>>
\* A second valid pair, the plaintext in upper-case digits.
UpperPlaintext ==
  <<48, 48, 49, 49, 50, 50, 51, 51, 52, 52, 53, 53, 54, 54, 55, 55,
     56, 56, 57, 57, 65, 65, 66, 66, 67, 67, 68, 68, 69, 69, 70, 70>>
CountingKey ==
  <<48, 48, 48, 49, 48, 50, 48, 51, 48, 52, 48, 53, 48, 54, 48, 55,
     48, 56, 48, 57, 48, 97, 48, 98, 48, 99, 48, 100, 48, 101, 48, 102>>

MaxCut == 2
MaxExtra == 1
MaxBadPos == 2

ValidHex == {KatPlaintext, KatKey, UpperPlaintext, CountingKey}

\* Malformed strings: too short (odd and even lengths, empty), too long,
\* and of the right length with the non-hex letter g.
InvalidHex ==
  {<<>>}
    \cup {SubSeq(v, 1, 32 - k) : v \in {KatPlaintext, KatKey}, k \in 1..MaxCut}
    \cup {v \o [i \in 1..k |-> 48] : v \in {KatPlaintext, KatKey}, k \in 1..MaxExtra}
    \cup {[v EXCEPT ![i] = 103] : v \in {KatPlaintext, KatKey}, i \in 1..MaxBadPos}
    \cup {[v EXCEPT ![32] = 103] : v \in {KatPlaintext, KatKey}}

HexInputs == ValidHex \cup InvalidHex

CallBuildAESSteps ==
  /\ op = "new"
  /\ \E plaintextHex \in HexInputs, keyHex \in HexInputs :
       /\ UNCHANGED GlueVars
       /\ op' = "buildAESSteps"
       /\ arg' = <<plaintextHex, keyHex>>
       /\ ret' = <<buildAESSteps(plaintextHex, keyHex)>>
       /\ UNCHANGED NavVars

CallValidateHex ==
  /\ op = "new"
  /\ \E value \in HexInputs :
       /\ UNCHANGED GlueVars
       /\ op' = "validateHex"
       /\ arg' = <<value>>
       /\ ret' = <<validateHex(value)>>
       /\ UNCHANGED NavVars

AESNext == CallBuildAESSteps \/ CallValidateHex

AESSpec == EngineInit /\ [][AESNext]_vars

(***************************************************************************)
(* Properties of the AES-128 trace builder.                                *)
(***************************************************************************)
\* The code units 0-9, A-F and a-f.
HexDigits == (48..57) \cup (65..70) \cup (97..102)

\* Exactly 32 hexadecimal characters.
IsHex32(s) == Len(s) = 32 /\ \A i \in 1..Len(s) : s[i] \in HexDigits

\* The operation and round of step k (from 1) of an AES-128 trace: initial,
\* the round-0 addRoundKey, four steps for each of the rounds 1..9, three
\* for round 10 and the completion step.
TraceOperation(k) ==
  IF k = 1 THEN "initial"
  ELSE IF k = 2 THEN "addRoundKey"
  ELSE IF k <= 38
       THEN <<"subBytes", "shiftRows", "mixColumns", "addRoundKey">>[((k - 3) % 4) + 1]
  ELSE IF k <= 41 THEN <<"subBytes", "shiftRows", "addRoundKey">>[k - 38]
  ELSE "complete"

TraceRound(k) ==
  IF k <= 2 THEN 0
  ELSE IF k <= 38 THEN ((k - 3) \div 4) + 1
  ELSE 10

ValidAESCall ==
  /\ op = "buildAESSteps"
  /\ IsHex32(arg[1])
  /\ IsHex32(arg[2])

InTraceOrder(trace) ==
  \A k \in 1..Len(trace) :
    /\ trace[k].operation = TraceOperation(k)
    /\ trace[k].round = TraceRound(k)

KatCipherBytes == <<57, 37, 132, 29, 2, 220, 9, 251, 220, 17, 133, 151, 25, 106, 11, 50>>

\* C13: for plaintext 3243f6a8885a308d313198a2e0370734 and key
\* 2b7e151628aed2a6abf7158809cf4f3c the completion step of buildAESSteps
\* carries the ciphertext hex 3925841d02dc09fbdc118597196a0b32, and its state
\* holds byte i of that ciphertext at row i mod 4, column i div 4.
C13_KnownAnswer ==
  (op = "buildAESSteps" /\ arg = <<KatPlaintext, KatKey>>) =>
    LET trace == ret[1].value
        last == trace[Len(trace)]
    IN  /\ ret[1].ok
        /\ last.operation = "complete"
        /\ last.cipherHex = KatCipher
        /\ \A i \in 0..15 :
             last.state[(i % 4) + 1][(i \div 4) + 1] = KatCipherBytes[i + 1]

C13_Witness ==
  /\ op = "buildAESSteps"
  /\ arg = <<KatPlaintext, KatKey>>
  /\ ret[1].value[Len(ret[1].value)].cipherHex = KatCipher
  /\ ret[1].value[Len(ret[1].value)].state[1] = <<57, 2, 220, 25>>

\* C14 as stated: buildAESSteps fails with a format error, returning no
\* steps, whenever its plaintext or its key is not exactly 32 hexadecimal
\* characters, and returns a trace only when both are.
C14_RejectsMalformedHex ==
  op = "buildAESSteps" => (ret[1].ok <=> (IsHex32(arg[1]) /\ IsHex32(arg[2])))

\* ------------------------------------------- byte/matrix conversions
\* largest step between neighbouring bytes of a generated block
MaxStride == 7
\* number of first bytes tried per stride, less one
MaxOffset == 7

\* 16-byte blocks: byte i is (37 * o + s * i) mod 256
ByteSeqs ==
  {[i \in 1..16 |-> (37 * o + s * (i - 1)) % 256] :
     o \in 0..MaxOffset, s \in 0..MaxStride}

\* 4x4 byte matrices whose cells run along the rows
Matrices ==
  {[r \in 1..4 |-> [c \in 1..4 |->
      (37 * o + s * (4 * (r - 1) + (c - 1)) + 1) % 256]] :
     o \in 0..MaxOffset, s \in 0..MaxStride}

\* bytesToMatrix of a fresh block or of the block matrixToBytes returned
CallBytesToMatrix ==
  \E bytes \in (IF op = "new" THEN ByteSeqs
                ELSE IF op = "matrixToBytes" THEN {ret[1]} ELSE {}) :
    /\ UNCHANGED GlueVars
    /\ op' = "bytesToMatrix"
    /\ arg' = <<bytes>>
    /\ ret' = <<bytesToMatrix(bytes)>>
    /\ UNCHANGED NavVars

\* matrixToBytes of a fresh matrix or of the one bytesToMatrix returned
CallMatrixToBytes ==
  \E matrix \in (IF op = "new" THEN Matrices
                 ELSE IF op = "bytesToMatrix" THEN {ret[1]} ELSE {}) :
    /\ UNCHANGED GlueVars
    /\ op' = "matrixToBytes"
    /\ arg' = <<matrix>>
    /\ ret' = <<matrixToBytes(matrix)>>
    /\ UNCHANGED NavVars

MatrixNext ==
  \/ CallBytesToMatrix
  \/ CallMatrixToBytes

MatrixSpec == EngineInit /\ [][MatrixNext]_vars

\* C22: bytesToMatrix puts byte i at row i mod 4, column i div 4, and
\* matrixToBytes undoes it: matrixToBytes(bytesToMatrix(b)) = b for every
\* 16-byte b and bytesToMatrix(matrixToBytes(M)) = M for every 4x4 M
C22_MatrixRoundTrip ==
  /\ [](op = "bytesToMatrix" =>
          \A i \in 0..15 : ret[1][(i % 4) + 1][(i \div 4) + 1] = arg[1][i + 1])
  /\ [][ /\ (op = "bytesToMatrix" /\ op' = "matrixToBytes") =>
              (arg' = ret /\ ret' = arg)
         /\ (op = "matrixToBytes" /\ op' = "bytesToMatrix") =>
              (arg' = ret /\ ret' = arg) ]_vars

\* a matrix with 16 different cells came back from its bytes
C22_Witness ==
  /\ op = "bytesToMatrix"
  /\ ret[1] \in Matrices
  /\ ret[1][1] = <<1, 2, 3, 4>>
  /\ arg[1] = <<1, 5, 9, 13, 2, 6, 10, 14, 3, 7, 11, 15, 4, 8, 12, 16>>

\* ------------------------------------------- AES trace bookkeeping
\* the flat positions row * 4 + col at which two matrices differ
DiffSet(m1, m2) ==
  {k \in 0..15 : m1[(k \div 4) + 1][(k % 4) + 1]
                   # m2[(k \div 4) + 1][(k % 4) + 1]}

\* step k of a trace continues step k - 1
ContinuesPrevious(trace, k) ==
  /\ trace[k].prevState = trace[k - 1].state
  /\ {trace[k].changedIndices[j] : j \in 1..Len(trace[k].changedIndices)}
       = DiffSet(trace[k].state, trace[k - 1].state)

\* C26 as stated: in every trace of buildAESSteps each step but the first
\* has a prevState equal to the state of the step before it and
\* changedIndices exactly the positions where its state differs from that
\* state; the first step has no prevState and no changedIndices
C26_EveryStepContinuesPrevious ==
  (op = "buildAESSteps" /\ ret[1].ok) =>
    LET trace == ret[1].value
    IN  /\ trace[1].prevState = NoMatrix
        /\ trace[1].changedIndices = <<>>
        /\ \A k \in 2..Len(trace) : ContinuesPrevious(trace, k)

\* C26: the same for every step between the first and the last; the
\* first and the closing "complete" step have no prevState and no
\* changedIndices, and the closing step repeats the state before it
C26_TransformStepsContinuePrevious ==
  (op = "buildAESSteps" /\ ret[1].ok) =>
    LET trace == ret[1].value
        n == Len(trace)
    IN  /\ trace[1].prevState = NoMatrix
        /\ trace[1].changedIndices = <<>>
        /\ \A k \in 2..(n - 1) : ContinuesPrevious(trace, k)
        /\ trace[n].operation = "complete"
        /\ trace[n].prevState = NoMatrix
        /\ trace[n].changedIndices = <<>>
        /\ trace[n].state = trace[n - 1].state

\* the first shiftRows of a trace leaves row 0 alone
C26_Witness ==
  /\ op = "buildAESSteps"
  /\ arg = <<KatPlaintext, KatKey>>
  /\ ret[1].value[4].operation = "shiftRows"
  /\ ret[1].value[4].prevState = ret[1].value[3].state
  /\ ret[1].value[4].changedIndices
       = <<4, 5, 6, 7, 8, 9, 10, 11, 12, 13, 14, 15>>
  /\ ret[1].value[42].prevState = NoMatrix

(***************************************************************************)
(* Glue code (main.js): the module variables currentAlgo, stepper,         *)
(* animator and currentRoundKeys, the input-error element, and the event   *)
(* handlers.  The one Stepper and the one Animator the module variables    *)
(* point to are the navigation variables above; the host's timer table     *)
(* outlives every Animator.  Both observers are installed, the DOM the     *)
(* Renderer writes is not modelled beyond the observer calls in events.    *)
(***************************************************************************)
\* the module variables and the current Stepper / Animator as one value
Glue ==
  [stepper |-> stepper, animator |-> animator,
   currentRoundKeys |-> currentRoundKeys,
   steps |-> steps, currentIndex |-> currentIndex,
   playing |-> playing, intervalId |-> intervalId, speed |-> speed,
   timers |-> timers, events |-> <<>>]

\* if (animator) animator.pause()
pauseAnimator(g) ==
  IF g.animator
  THEN LET a == pause([playing |-> g.playing, intervalId |-> g.intervalId,
                       timers |-> g.timers, events |-> g.events])
       IN  [g EXCEPT !.playing = a.playing, !.intervalId = a.intervalId,
                     !.timers = a.timers, !.events = a.events]
  ELSE g

\* initVisualization() that replaces the Animator without pausing it
initVisualization_NoPause(g, newSteps, ms) ==
  [g EXCEPT !.stepper = TRUE, !.animator = TRUE,
            !.steps = newSteps, !.currentIndex = 0,
            !.playing = FALSE, !.intervalId = NoTimer, !.speed = ms,
            !.events = @ \o start(newSteps, 0).events]

\* a new Stepper at index 0 and a new, idle Animator with the period ms
\* read from the speed slider; stepper.start() announces the first step
initVisualization(g, newSteps, ms) ==
  LET h == pauseAnimator(g)
  IN  [h EXCEPT !.stepper = TRUE, !.animator = TRUE,
                !.steps = newSteps, !.currentIndex = 0,
                !.playing = FALSE, !.intervalId = NoTimer, !.speed = ms,
                !.events = @ \o start(newSteps, 0).events]

\* the Stepper and the Animator are dropped
resetVisualization(g) ==
  LET h == pauseAnimator(g)
  IN  [h EXCEPT !.stepper = FALSE, !.animator = FALSE,
                !.currentRoundKeys = <<>>,
                !.steps = <<>>, !.currentIndex = 0,
                !.playing = FALSE, !.intervalId = NoTimer]

\* String.prototype.trim on code units
WhiteSpace == {9, 10, 11, 12, 13, 32}
trim(s) ==
  LET n == Len(s)
      leading == Cardinality({i \in 1..n :
                                \A j \in 1..i : s[j] \in WhiteSpace})
      trailing == Cardinality({i \in 1..n :
                                 \A j \in i..n : s[j] \in WhiteSpace})
  IN  IF leading = n THEN <<>> ELSE SubSeq(s, leading + 1, n - trailing)

\* ------------------------------------------------------- field values
\* what the plaintext and key fields may hold when the button is pressed:
\* the documented pair, the same with blanks around the plaintext, a
\* plaintext one digit short, a plaintext with the letter g, an empty key
AESFields ==
  {<<KatPlaintext, KatKey>>,
   <<(<<32>> \o KatPlaintext) \o <<32, 10>>, KatKey>>,
   <<SubSeq(KatPlaintext, 1, 31), KatKey>>,
   <<[KatPlaintext EXCEPT ![1] = 103], KatKey>>,
   <<KatPlaintext, <<>>>>}

\* what parseInt reads from the fields p, q, e and message: the documented
\* values, an empty p, a composite p, equal primes, an e that divides phi,
\* a message that is not below n
RSAFields ==
  {<<PresetP, PresetQ, PresetE, PresetM>>,
   <<NaN, PresetQ, PresetE, PresetM>>,
   <<4, PresetQ, PresetE, PresetM>>,
   <<PresetP, PresetP, PresetE, PresetM>>,
   <<PresetP, PresetQ, 3, PresetM>>,
   <<PresetP, PresetQ, PresetE, 5000>>}

\* buildAESSteps and keyExpansion for the field values that pass
\* validateHex, computed once
AESRuns ==
  [f \in {<<trim(v[1]), trim(v[2])>> :
            v \in {w \in AESFields : /\ validateHex(trim(w[1])).ok
                                     /\ validateHex(trim(w[2])).ok}} |->
     [steps |-> buildAESSteps(f[1], f[2]),
      roundKeys |-> keyExpansion(hexToBytes(f[2]))]]

\* the tail of startAES(): currentRoundKeys, then initVisualization
showAES(g, run, ms) ==
  initVisualization([g EXCEPT !.currentRoundKeys = run.roundKeys],
                    run.steps.value, ms)

\* startAES() that clears the visualization before it validates
startAES_ResetFirst(g, ptValue, keyValue, ms) ==
  LET pt == trim(ptValue)
      key == trim(keyValue)
  IN  IF ~validateHex(pt).ok
      THEN [ok |-> FALSE, error |-> "plaintextNotHex32",
            glue |-> resetVisualization(g)]
      ELSE IF ~validateHex(key).ok
      THEN [ok |-> FALSE, error |-> "keyNotHex32",
            glue |-> resetVisualization(g)]
      ELSE [ok |-> TRUE, error |-> "",
            glue |-> showAES(resetVisualization(g), AESRuns[<<pt, key>>], ms)]

\* a throw leaves the function before any assignment; the message names
\* the field that validateHex was called for
startAES(g, ptValue, keyValue, ms) ==
  LET pt == trim(ptValue)
      key == trim(keyValue)
  IN  IF ~validateHex(pt).ok
      THEN [ok |-> FALSE, error |-> "plaintextNotHex32", glue |-> g]
      ELSE IF ~validateHex(key).ok
      THEN [ok |-> FALSE, error |-> "keyNotHex32", glue |-> g]
      ELSE [ok |-> TRUE, error |-> "",
            glue |-> showAES(g, AESRuns[<<pt, key>>], ms)]

startRSA(g, p, q, e, m, ms) ==
  IF NaN \in {p, q, e, m}
  THEN [ok |-> FALSE, error |-> "notNumbers", glue |-> g]
  ELSE LET built == buildRSASteps(m, p, q, e)
       IN  IF ~built.ok
           THEN [ok |-> FALSE, error |-> built.error, glue |-> g]
           ELSE [ok |-> TRUE, error |-> "",
                 glue |-> initVisualization(
                            [g EXCEPT !.currentRoundKeys = <<>>],
                            built.value, ms)]

\* the catch block: the error text is the message of what was thrown
showError(r) ==
  [glue |-> r.glue, inputError |-> IF r.ok THEN "" ELSE r.error]

\* the click handler of the encrypt button: the error text is cleared,
\* then set to the message of whatever the start function throws
clickEncrypt(g, algo, fields, ms) ==
  showError(IF algo = "aes"
            THEN startAES(g, fields[1], fields[2], ms)
            ELSE startRSA(g, fields[1], fields[2], fields[3], fields[4], ms))

\* install the glue state a handler leaves behind
SetGlue(g) ==
  /\ stepper' = g.stepper
  /\ animator' = g.animator
  /\ currentRoundKeys' = g.currentRoundKeys
  /\ steps' = g.steps
  /\ currentIndex' = g.currentIndex
  /\ playing' = g.playing
  /\ intervalId' = g.intervalId
  /\ speed' = g.speed
  /\ timers' = g.timers
  /\ events' = g.events

\* ------------------------------------------------------ glue handlers
\* a click on an algorithm tab
ClickAlgoTab ==
  \E algo \in {"aes", "rsa"} :
    /\ SetGlue(resetVisualization(Glue))
    /\ currentAlgo' = algo
    /\ op' = "clickTab" /\ arg' = <<algo>> /\ ret' = <<>>
    /\ UNCHANGED <<inputError, onStateChange, phase>>

\* a click on the encrypt button with the fields as they are then.  The
\* speed slider and the Animator's period always agree (the Animator is
\* built with the slider's value and every slider input calls setSpeed),
\* so speed stands for the slider's value too.
ClickEncrypt ==
  \E fields \in (IF currentAlgo = "aes" THEN AESFields ELSE RSAFields) :
    \E r \in {clickEncrypt(Glue, currentAlgo, fields, speed)} :
      /\ SetGlue(r.glue)
      /\ inputError' = r.inputError
      /\ op' = "clickEncrypt" /\ arg' = fields /\ ret' = <<>>
      /\ UNCHANGED <<currentAlgo, onStateChange, phase>>

\* the next button and the ArrowRight key: stepper?.next()
ClickNext == stepper /\ StepperNext

\* the previous button and the ArrowLeft key: stepper?.prev()
ClickPrev == stepper /\ StepperPrev

\* the first / last buttons and the Home / End keys
ClickFirstOrLast ==
  /\ stepper
  /\ \E i \in {0, totalSteps(steps) - 1} :
       LET r == goTo(steps, currentIndex, i)
       IN  /\ currentIndex' = r.index
           /\ events' = r.events
           /\ ret' = <<>>
           /\ op' = "goTo" /\ arg' = <<i>>
           /\ UNCHANGED <<steps, AnimVars, GlueVars>>

\* the play button and the space key: animator?.toggle()
ClickPlay == animator /\ AnimatorToggle

\* the speed slider: if (animator) animator.setSpeed(value); without an
\* Animator the slider only keeps its new value
SlideSpeed ==
  \/ animator /\ AnimatorSetSpeed
  \/ /\ ~animator
     /\ \E ms \in Speeds :
          /\ speed' = ms
          /\ op' = "slide" /\ arg' = <<ms>> /\ ret' = <<>>
          /\ events' = <<>>
          /\ UNCHANGED <<steps, currentIndex, playing, intervalId,
                         onStateChange, timers, phase, GlueVars>>

GlueNext ==
  \/ ClickAlgoTab
  \/ ClickEncrypt
  \/ ClickNext
  \/ ClickPrev
  \/ ClickFirstOrLast
  \/ ClickPlay
  \/ SlideSpeed
  \/ TimerTick

\* the page as loaded: AES tab, no Stepper, no Animator
GlueSpec == EngineInit /\ [][GlueNext]_vars

\* ------------------------------------------------------ glue properties
\* C25: when a trace build fails (malformed AES hex, invalid RSA
\* parameters, RSA message out of range) no step sequence is installed or
\* announced and the Stepper, its cursor, the Animator, its playing state
\* and its timer stay as they were; only the error text is set
C25_FailedBuildChangesNothing ==
  [][ op' = "clickEncrypt" =>
        IF IF currentAlgo = "aes"
           THEN \E pt \in {trim(arg'[1])}, key \in {trim(arg'[2])} :
                  ~(IsHex32(pt) /\ IsHex32(key))
           ELSE \/ NaN \in {arg'[1], arg'[2], arg'[3], arg'[4]}
                \/ ~ValidRSAInput(arg'[4], arg'[1], arg'[2], arg'[3])
        THEN /\ inputError' # ""
             /\ UNCHANGED <<stepper, steps, currentIndex, animator,
                            playing, intervalId, speed, timers,
                            currentRoundKeys, currentAlgo>>
             /\ events' = <<>>
        ELSE /\ inputError' = ""
             /\ stepper' /\ animator'
             /\ currentIndex' = 0
             /\ Len(steps') = (IF currentAlgo = "aes" THEN 42 ELSE 12)
      ]_vars

\* an RSA message out of range while the previous trace is playing
C25_Witness ==
  /\ op = "clickEncrypt"
  /\ currentAlgo = "rsa"
  /\ arg = <<PresetP, PresetQ, PresetE, 5000>>
  /\ inputError # ""
  /\ stepper /\ playing /\ timers # {}
  /\ currentIndex = 3
  /\ Len(steps) = 12

\* C30: at most one timer is scheduled, and it is the timer of the
\* current, playing Animator; replacing the Animator (a successful start)
\* or dropping it (a tab switch) leaves no timer behind, so every tick is
\* a tick of the current Animator on the current Stepper
C30_OneTimer ==
  /\ [](Cardinality(timers) <= 1)
  /\ [](timers # {} =>
          /\ stepper /\ animator /\ playing
          /\ timers = {[id |-> intervalId, period |-> speed]})
  /\ [][ /\ op' = "tick" =>
              (stepper /\ animator /\ playing /\ arg'[1] = intervalId)
         /\ (op' = "clickTab" \/ (op' = "clickEncrypt" /\ inputError' = ""))
              => (timers' = {} /\ ~playing') ]_vars

\* a start that replaced a playing Animator: it was paused first
C30_Witness ==
  /\ op = "clickEncrypt"
  /\ inputError = ""
  /\ Len(events) = 2
  /\ events[1] = [kind |-> "state", playing |-> FALSE]
  /\ events[2].kind = "step"
  /\ timers = {}
  /\ ~playing

====
